---- MODULE Spec2Model ----
(***************************************************************************)
(* AppESI (src/app/esi.py): the ESI client's conditional-GET cache and its *)
(* retry loop, modelled as cooperating asyncio tasks.  One action is one   *)
(* stretch of code between two suspension points (await) of a task.        *)
(***************************************************************************)
EXTENDS Integers, Sequences, FiniteSets, TLC

VARIABLES
    task,       \* task id -> the locals of one running call of get/post/pages
    cache,      \* the redis store: <<sub-key, identity>> -> optional entry
    upstream,   \* identity -> version of the resource the ESI serves now
    completed,  \* task ids of finished page fetches, in completion order
    cls,        \* the class AppESI: SELF, and what factory made and handed out
    db          \* the relational store: table -> the rows committed to it

vars == <<task, cache, upstream, completed, cls, db>>

----------------------------------------------------------------------------
(* Bounds of the model. *)

\* Calls of AppESI.factory in a process.
MaxFactoryCalls == 3

\* AppConstants.ESI_ERROR_RETRY_COUNT, a configuration input (attempt budget).
ESI_ERROR_RETRY_COUNT == 3

\* Number of versions the upstream resource goes through.
MaxVersion == 2

\* Largest X-Pages value the upstream reports.
MaxPages == 3

\* Number of items of one page's body.
PageLen == 1

----------------------------------------------------------------------------
(* Program constants. *)

HTTP_OK == 200
NOT_MODIFIED == 304
BAD_REQUEST == 400
UNAUTHORIZED == 401
FORBIDDEN == 403
NOT_FOUND == 404
KV_LIFETIME == 3600
PLAYERS_MIN == 128

\* Statuses the upstream answers with: the ones the code names, one other
\* 2xx status and one server error.
Statuses == {HTTP_OK, 204, NOT_MODIFIED, BAD_REQUEST, UNAUTHORIZED, FORBIDDEN, NOT_FOUND, 500}

----------------------------------------------------------------------------
(* Python's None and optional values: None is <<>>, a value x is <<x>>. *)

None == << >>
Some(x) == << x >>
IsNone(o) == o = << >>
IsSome(o) == o # << >>
Val(o) == o[1]

(* The decoded JSON body of identity id at version ver: a list of items. *)
Body(id, ver) == [i \in 1..PageLen |-> <<id, ver, i>>]

(* The ETag header the upstream sends with that body. *)
ETagOf(id, ver) == [tag |-> <<id, ver>>]

(* json.dumps / json.loads: the body as stored text and back. *)
JsonDumps(body) == [text |-> body]
JsonLoads(s) == s.text

(* redis stores the page count as a string; int(pv) reads it back. *)
StrOfInt(n) == [digits |-> n]
IntOfStr(s) == s.digits

----------------------------------------------------------------------------
(* The Expires header of a response: absent, a date some seconds ahead of  *)
(* now (possibly already past), or text dateutil cannot parse.             *)

NoExpires == [kind |-> "absent"]
BadExpires == [kind |-> "garbage"]
ExpiresIn(s) == [kind |-> "date", ahead |-> s]
ExpiresValues == {NoExpires, BadExpires, ExpiresIn(120), ExpiresIn(0)}

(* Lifetime taking the default whatever the header says. *)
LifetimeDefaultOnly(expires) == Some(KV_LIFETIME)

(* lifetime as lines 93-96 compute it (None: dateutil.parser.parse raised);
   `ahead` is the whole number of seconds int(total_seconds()) leaves. *)
Lifetime(expires) ==
    IF expires.kind = "absent" THEN Some(KV_LIFETIME)
    ELSE IF expires.kind = "garbage" THEN None
    ELSE Some(expires.ahead)

(* The X-Pages header of a response: absent, an integer, or text int()     *)
(* cannot parse.                                                           *)
NoXPages == [kind |-> "absent"]
BadXPages == [kind |-> "garbage"]
XPages(n) == [kind |-> "int", n |-> n]
XPagesValues == {NoXPages, BadXPages} \cup {XPages(n) : n \in 0..MaxPages}

----------------------------------------------------------------------------
(* What one transport attempt can come back with.                          *)
(*   connect_error : ClientConnectionError before any response             *)
(*   unexpected    : any other exception before any response               *)
(*   response      : a status line and headers; `read` is how reading the  *)
(*                   body goes (response.json() on 200, response.text()    *)
(*                   in the warning of a failing status): "ok", "null" (a  *)
(*                   body that decodes to None), "conn" (the connection    *)
(*                   drops: ClientConnectionError) or "other" (any other   *)
(*                   exception, e.g. a malformed body).                    *)

NoResponse == {[kind |-> "connect_error"], [kind |-> "unexpected"]}

Responses200 ==
    [kind : {"response"}, status : {HTTP_OK}, etag : BOOLEAN,
     expires : ExpiresValues, xpages : {NoXPages}, read : {"ok", "null", "conn", "other"}]

ResponsesOther(ss) ==
    [kind : {"response"}, status : ss \ {HTTP_OK, NOT_MODIFIED}, etag : {FALSE},
     expires : {NoExpires}, xpages : {NoXPages}, read : {"ok", "conn", "other"}]
    \cup
    [kind : {"response"}, status : ss \cap {NOT_MODIFIED}, etag : {FALSE},
     expires : {NoExpires}, xpages : {NoXPages}, read : {"ok"}]

Outcomes == NoResponse \cup Responses200 \cup ResponsesOther(Statuses)

----------------------------------------------------------------------------
(* Locals of a call before its first statement. *)

NewTask(op, id) ==
    [op |-> op, id |-> id, pc |-> "idle",
     previous_json |-> None, previous_pages |-> 0, previous_etag |-> None,
     inm |-> None,                  \* request_headers.get('If-None-Match')
     result_status |-> NOT_FOUND, result_data |-> None,
     attempts_remaining |-> ESI_ERROR_RETRY_COUNT,
     response |-> FALSE,            \* the local `response` is bound
     maxpageno |-> 0,
     request_params |-> Some("params"),   \* the caller's query parameters
     url |-> "url",                 \* the caller's URL
     auth |-> None,                 \* the caller's Authorization header / access token
     response_pages |-> 0, response_json |-> None,
     response_expires |-> None,     \* kept for the observed call only
     response_etag |-> None,        \* kept for the observed call only
     pending |-> {},                \* setex commands of the running gather
     delay |-> 0,                   \* seconds of the asyncio.sleep under way
     out |-> None,                  \* how the call ended
     doc |-> None,                  \* status(): the document the data decodes to
     \* history of the call, read only by the properties and kept for the
     \* observed call (task 1 and its concurrent peer), not for page fetches
     traced |-> FALSE,
     n_attempts |-> 0, n_sleeps |-> 0, sent_inm |-> FALSE,
     perm_seen |-> FALSE, unexpected |-> FALSE, last_event |-> "none",
     answered |-> FALSE,            \* the latest attempt got a response, and
                                    \* lost no connection while reading it
     store_failed |-> "none"]       \* a failed read, else a failed write

(* A call has returned or raised.  The locals of a page fetch are gone with
   its frame: what is left of it is how it ended (and the setex commands
   still running).  An observed call keeps its locals as they were at the
   end, for the properties to read. *)
Ended(r, out) ==
    IF r.traced THEN [r EXCEPT !.pc = "done", !.out = Some(out)]
    ELSE [NewTask(r.op, r.id) EXCEPT
            !.pc = "done", !.out = Some(out), !.pending = r.pending]

Result(status, data) == [kind |-> "result", status |-> status, data |-> data]
Raised(exc) == [kind |-> "raise", exc |-> exc]

Key(kind, id) == <<kind, id>>

(* How a command sent to the store can go: TRUE, it is served; FALSE, it
   raises a RedisError (which contextlib.suppress swallows). *)
Unreliable == BOOLEAN
Available == {TRUE}
Entry(val, ttl) == [val |-> val, ttl |-> ttl]

(* The relational store with no row in the tables that ESIAlliancMemberTask
   and AppFunctions.is_permitted work on. *)
NoRows == [alliance_corporation |-> {}, corporation |-> {}, access_controls |-> {}]

(* The call after a read of the store (ok: it was served): a RedisError is
   swallowed by contextlib.suppress and leaves the local at its default. *)
AfterRead(r, ok) ==
    IF r.traced /\ ~ok THEN [r EXCEPT !.store_failed = "read"] ELSE r

(* The call after one of its setex commands (stored: it took effect). *)
AfterWrite(r, stored) ==
    IF r.traced /\ ~stored /\ r.store_failed = "none"
    THEN [r EXCEPT !.store_failed = "write"] ELSE r

----------------------------------------------------------------------------
(* AppESI.factory and the class variable SELF. *)

Loggers == {"app.logger", "task.logger"}

(* An instance as __init__ (lines 45-47) makes it. *)
Instance(redis_pool, logger) == [redis_pool |-> redis_pool, logger |-> logger]

(* The class when the module is imported (line 36), and once main.py has
   called factory (src/main.py line 63). *)
Imported == [SELF |-> None, pools |-> 0, calls |-> 0, loggers |-> {}, returned |-> {}]
Loaded == [SELF |-> Some(Instance(1, "app.logger")), pools |-> 1, calls |-> 1,
           loggers |-> {"app.logger"}, returned |-> {Instance(1, "app.logger")}]

(* MustCreate making an instance on every call. *)
MustCreateAlways(c) == TRUE

(* Line 40: `if cls.SELF is None`. *)
MustCreate(c) == IsNone(c.SELF)

(* Lines 38-43; the connection pools are numbered as they are created. *)
Factory(logger) ==
    /\ cls.calls < MaxFactoryCalls
    /\ LET create == MustCreate(cls)
           made == Instance(cls.pools + 1, logger)
           self == IF create THEN made ELSE Val(cls.SELF)
       IN cls' = [SELF |-> Some(self),
                  pools |-> IF create THEN cls.pools + 1 ELSE cls.pools,
                  calls |-> cls.calls + 1,
                  loggers |-> cls.loggers \cup {logger},
                  returned |-> cls.returned \cup {self}]
    /\ UNCHANGED <<task, cache, upstream, completed, db>>

----------------------------------------------------------------------------
(* The retry loop shared by get, post and the first page of pages. *)

Upd(t, r) == task' = [task EXCEPT ![t] = r]

(* `while result_data is None and attempts_remaining > 0` (lines 82, 140, 226):
   the statement the task runs next when it reaches the loop head. *)
LoopHead(r) ==
    IF IsNone(r.result_data) /\ r.attempts_remaining > 0 THEN "attempt" ELSE "return"

(* `break`. *)
Break(r) == [r EXCEPT !.pc = "return"]

(* The `except Exception` handler (lines 125-128, 164-167, 278-281): it logs
   and breaks. *)
Unexpected(r) == Break([r EXCEPT !.unexpected = r.traced])

(* AppConstants.ESI_ERROR_SLEEP_TIME and AppConstants.ESI_ERROR_SLEEP_MODIFIERS,
   configuration inputs: the base delay in seconds, and the table of
   multipliers per status. *)
ESI_ERROR_SLEEP_TIME == 5
ESI_ERROR_SLEEP_MODIFIERS == (BAD_REQUEST :> 3) @@ (NOT_FOUND :> 2)

(* ESI_ERROR_SLEEP_MODIFIERS.get(response.status, 1). *)
Multiplier(status) ==
    IF status \in DOMAIN ESI_ERROR_SLEEP_MODIFIERS
    THEN ESI_ERROR_SLEEP_MODIFIERS[status] ELSE 1

(* StatusBackoff growing with the attempts made. *)
StatusBackoffGrowing(r, status) ==
    ESI_ERROR_SLEEP_TIME * Multiplier(status) * (ESI_ERROR_RETRY_COUNT - r.attempts_remaining)

(* The argument of asyncio.sleep after a failing status (lines 116, 155, 269). *)
StatusBackoff(r, status) == ESI_ERROR_SLEEP_TIME * Multiplier(status)

(* The argument of asyncio.sleep after a connection-level failure (lines 123,
   162, 276). *)
ConnBackoff(r) == ESI_ERROR_SLEEP_TIME

(* SleepOrLoop with the guard of the sleep forgotten. *)
SleepOrLoopUnguarded(r, delay) == [r EXCEPT !.pc = "sleep", !.delay = delay]

(* `if attempts_remaining > 0: await asyncio.sleep(delay)`, then the loop head. *)
SleepOrLoop(r, delay) ==
    IF r.attempts_remaining > 0 THEN [r EXCEPT !.pc = "sleep", !.delay = delay]
    ELSE [r EXCEPT !.pc = LoopHead(r)]

(* The `except ClientConnectionError` handler (lines 118-123, 157-162, 271-276). *)
ConnFailure(r) ==
    LET r1 == [r EXCEPT !.attempts_remaining = @ - 1, !.answered = FALSE]
    IN SleepOrLoop(r1, ConnBackoff(r1))

(* Statuses after which get and pages stop retrying (lines 113, 266). *)
GetPermanent == {BAD_REQUEST, FORBIDDEN}

(* Statuses after which post stops retrying (line 152). *)
PostPermanent == {BAD_REQUEST, FORBIDDEN, UNAUTHORIZED}

(* A failing status (lines 110-116, 149-155, 263-269): decrement, log the
   warning (get and post await response.text() in it), the permanent check,
   the backoff sleep. *)
StatusFailure(r, o, permanent) ==
    LET r1 == [r EXCEPT !.attempts_remaining = @ - 1] IN
    IF o.read = "conn" THEN ConnFailure(r1)
    ELSE IF o.read = "other" THEN Unexpected(r1)
    ELSE SleepOrLoop([r1 EXCEPT !.attempts_remaining =
                         IF o.status \in permanent THEN 0 ELSE @],
                     StatusBackoff(r1, o.status))

(* What every attempt records, whatever comes back: one more transport
   attempt, carrying request_headers as they are. *)
Attempted(r) ==
    IF r.traced
    THEN [r EXCEPT !.n_attempts = @ + 1,
                   !.sent_inm = @ \/ IsSome(r.inm),
                   !.answered = FALSE,
                   !.last_event = "attempt"]
    ELSE r

(* Bound not recording the status of the response. *)
BoundWithoutStatus(r, o) == [r EXCEPT !.response = TRUE]

(* `async with await http_session.get(...) as response: result_status = response.status` *)
Bound(r, o) ==
    [r EXCEPT !.response = TRUE,
              !.result_status = o.status,
              !.answered = r.traced,
              !.perm_seen = @ \/ (r.traced /\ o.status \in {BAD_REQUEST, FORBIDDEN})]

----------------------------------------------------------------------------
(* AppESI.get *)

(* GetConditional never attaching the header. *)
GetConditionalNever(etag, json) == FALSE

(* GetConditional trusting the etag alone. *)
GetConditionalEtagOnly(etag, json) == IsSome(etag)

(* Line 75: when the If-None-Match header is attached. *)
GetConditional(etag, json) == IsSome(etag) /\ IsSome(json)

(* The two setex commands of lines 100-103. *)
GetWrites(id, body, etag, ttl) ==
    { [key |-> Key("json", id), val |-> JsonDumps(body), ttl |-> ttl],
      [key |-> Key("etag", id), val |-> etag, ttl |-> ttl] }

(* Lines 87-104: a 200 response. *)
GetOn200(r, o, ver) ==
    IF o.read = "conn" THEN ConnFailure(r)
    ELSE IF o.read = "other" THEN Unexpected(r)
    ELSE
      LET response_json == IF o.read = "ok" THEN Some(Body(r.id, ver)) ELSE None
          response_etag == IF o.etag THEN Some(ETagOf(r.id, ver)) ELSE None
          r1 == [r EXCEPT !.result_data = response_json,
                          !.response_etag = IF r.traced THEN response_etag ELSE @,
                          !.response_expires = IF r.traced THEN Some(o.expires) ELSE @]
          lifetime == Lifetime(o.expires)
      IN  IF IsSome(response_etag) /\ IsSome(response_json)
          THEN IF IsNone(lifetime) THEN Unexpected(r1)
               ELSE [r1 EXCEPT !.pc = "write",
                               !.pending = GetWrites(r.id, Val(response_json),
                                                     Val(response_etag), Val(lifetime))]
          ELSE Break(r1)

(* GetOn304 writing the validated body and etag again, for a new lifetime. *)
GetOn304Refreshing(r) ==
    IF IsSome(r.previous_json) /\ IsSome(r.previous_etag)
    THEN [r EXCEPT !.pc = "write", !.result_data = r.previous_json,
                   !.pending = GetWrites(r.id, Val(r.previous_json),
                                         Val(r.previous_etag), KV_LIFETIME)]
    ELSE Break([r EXCEPT !.result_data = r.previous_json])

(* GetOn304 treating a 304 it has no body for as one more failed attempt. *)
GetOn304Retrying(r) ==
    IF IsNone(r.previous_json) THEN ConnFailure(r)
    ELSE Break([r EXCEPT !.result_data = r.previous_json])

(* Lines 106-108: a 304 response. *)
GetOn304(r) == Break([r EXCEPT !.result_data = r.previous_json])

(* Lines 83-128: one pass of the loop body up to its next await. *)
GetProcess(r, o, ver) ==
    LET a == Attempted(r) IN
    IF o.kind = "connect_error" THEN ConnFailure(a)
    ELSE IF o.kind = "unexpected" THEN Unexpected(a)
    ELSE LET b == Bound(a, o) IN
         IF o.status = HTTP_OK THEN GetOn200(b, o, ver)
         ELSE IF o.status = NOT_MODIFIED THEN GetOn304(b)
         ELSE StatusFailure(b, o, GetPermanent)

(* Lines 64-69: the best-effort read of the cached body. *)
GetReadJson(t, store) ==
    /\ task[t].op = "get" /\ task[t].pc = "read_json"
    /\ \E ok \in store :
         LET pv == cache[Key("json", task[t].id)] IN
         Upd(t, [AfterRead(task[t], ok) EXCEPT
                   !.pc = "read_etag",
                   !.previous_json = IF ok /\ IsSome(pv)
                                     THEN Some(JsonLoads(Val(pv).val)) ELSE None])
    /\ UNCHANGED <<cache, upstream, completed, cls, db>>

(* Lines 71-76: the best-effort read of the cached etag, and the header. *)
GetReadEtag(t, store) ==
    /\ task[t].op = "get" /\ task[t].pc = "read_etag"
    /\ \E ok \in store :
         LET pv == cache[Key("etag", task[t].id)]
             previous_etag == IF ok /\ IsSome(pv) THEN Some(Val(pv).val) ELSE None
             r == [AfterRead(task[t], ok) EXCEPT
                     !.previous_etag = previous_etag,
                     !.inm = IF GetConditional(previous_etag, task[t].previous_json)
                             THEN previous_etag ELSE None]
         IN Upd(t, [r EXCEPT !.pc = LoopHead(r)])
    /\ UNCHANGED <<cache, upstream, completed, cls, db>>

(* Lines 82-128: one transport attempt and what the loop body does with it. *)
GetAttempt(t, outcomes) ==
    /\ task[t].op = "get" /\ task[t].pc = "attempt"
    /\ \E o \in outcomes : Upd(t, GetProcess(task[t], o, upstream[task[t].id]))
    /\ UNCHANGED <<cache, upstream, completed, cls, db>>

(* await asyncio.sleep(...) (lines 116, 123, 155, 162, 269, 276). *)
Sleep(t) ==
    /\ task[t].pc = "sleep"
    /\ Upd(t, IF task[t].traced
              THEN [task[t] EXCEPT !.n_sleeps = @ + 1, !.last_event = "sleep",
                                   !.pc = LoopHead(task[t]), !.delay = 0]
              ELSE [task[t] EXCEPT !.pc = LoopHead(task[t]), !.delay = 0])
    /\ UNCHANGED <<cache, upstream, completed, cls, db>>

(* Lines 130-131: the closing log line reads response.url, which is unbound
   when no attempt got a response (UnboundLocalError); then the Result. *)
GetEnd(r) ==
    IF r.response THEN Result(r.result_status, r.result_data)
    ELSE Raised("UnboundLocalError")

GetReturn(t) ==
    /\ task[t].op = "get" /\ task[t].pc = "return"
    /\ Upd(t, Ended(task[t], GetEnd(task[t])))
    /\ completed' = Append(completed, t)
    /\ UNCHANGED <<cache, upstream, cls, db>>

----------------------------------------------------------------------------
(* The cache store and the upstream. *)

(* What a task does when its gather of setex commands ends: get breaks
   (line 104); pages takes the page count and page one's items, then breaks
   (lines 251-254). *)
AfterWrites(r) ==
    IF r.op = "pages"
    THEN Break([r EXCEPT !.maxpageno = r.response_pages,
                         !.result_data = Some(Val(r.response_json))])
    ELSE Break(r)

(* One setex of a gather reaches the store, or fails with a RedisError (a
   lifetime <= 0 always does).  The gather ends at the first failure or with
   the last command; a command still running then runs on detached. *)
CacheWrite(t, store) ==
    /\ \E w \in task[t].pending, ok \in store :
         LET stored == ok /\ w.ttl > 0
             rest == task[t].pending \ {w}
             r == [AfterWrite(task[t], stored) EXCEPT !.pending = rest]
         IN /\ cache' = IF stored THEN [cache EXCEPT ![w.key] = Some(Entry(w.val, w.ttl))]
                        ELSE cache
            /\ Upd(t, IF r.pc = "write" /\ (~stored \/ rest = {})
                      THEN AfterWrites(r) ELSE r)
    /\ UNCHANGED <<upstream, completed, cls, db>>

(* A key's TTL runs out. *)
CacheExpire ==
    /\ \E k \in DOMAIN cache :
         /\ IsSome(cache[k])
         /\ cache' = [cache EXCEPT ![k] = None]
    /\ UNCHANGED <<task, upstream, completed, cls, db>>

(* The resource changes upstream. *)
UpstreamChange ==
    /\ \E id \in DOMAIN upstream :
         /\ upstream[id] < MaxVersion
         /\ upstream' = [upstream EXCEPT ![id] = @ + 1]
    /\ UNCHANGED <<task, cache, completed, cls, db>>

(* The store as earlier calls can have left it for identity id: each sub-key
   absent (never written, or expired) or written by a response of some
   version up to last. *)
JsonEntries(id, last) ==
    {None} \cup {Some(Entry(JsonDumps(Body(id, v)), KV_LIFETIME)) : v \in 1..last}
EtagEntries(id, last) ==
    {None} \cup {Some(Entry(ETagOf(id, v), KV_LIFETIME)) : v \in 1..last}

----------------------------------------------------------------------------
(* AppESI.post *)

(* What an attempt of post can come back with: 304 is one more failing
   status there. *)
PostOutcomes ==
    NoResponse
    \cup [kind : {"response"}, status : {HTTP_OK}, etag : {FALSE},
          expires : {NoExpires}, xpages : {NoXPages}, read : {"ok", "null", "conn", "other"}]
    \cup [kind : {"response"}, status : Statuses \ {HTTP_OK}, etag : {FALSE},
          expires : {NoExpires}, xpages : {NoXPages}, read : {"ok", "conn", "other"}]

(* PostOn200 storing the body it decoded as get does. *)
PostOn200Caching(r, o, ver) ==
    IF o.read = "ok"
    THEN [r EXCEPT !.pc = "write", !.result_data = Some(Body(r.id, ver)),
                   !.pending = GetWrites(r.id, Body(r.id, ver), ETagOf(r.id, ver), KV_LIFETIME)]
    ELSE Break(r)

(* Lines 145-147: a 200 response. *)
PostOn200(r, o, ver) ==
    IF o.read = "conn" THEN ConnFailure(r)
    ELSE IF o.read = "other" THEN Unexpected(r)
    ELSE Break([r EXCEPT !.result_data =
                   IF o.read = "ok" THEN Some(Body(r.id, ver)) ELSE None])

(* Lines 141-167: one pass of the loop body up to its next await. *)
PostProcess(r, o, ver) ==
    LET a == Attempted(r) IN
    IF o.kind = "connect_error" THEN ConnFailure(a)
    ELSE IF o.kind = "unexpected" THEN Unexpected(a)
    ELSE LET b == Bound(a, o) IN
         IF o.status = HTTP_OK THEN PostOn200(b, o, ver)
         ELSE StatusFailure(b, o, PostPermanent)

PostAttempt(t) ==
    /\ task[t].op = "post" /\ task[t].pc = "attempt"
    /\ \E o \in PostOutcomes : Upd(t, PostProcess(task[t], o, upstream[task[t].id]))
    /\ UNCHANGED <<cache, upstream, completed, cls, db>>

(* Line 169. *)
PostReturn(t) ==
    /\ task[t].op = "post" /\ task[t].pc = "return"
    /\ Upd(t, Ended(task[t], Result(task[t].result_status, task[t].result_data)))
    /\ UNCHANGED <<cache, upstream, completed, cls, db>>

----------------------------------------------------------------------------
(* AppESI.pages: task 1 is the call, task p (p >= 2) is the get of page p. *)

(* What an attempt for page one can come back with (the warning of line 265
   reads no body). *)
PagesOutcomes ==
    NoResponse
    \cup [kind : {"response"}, status : {HTTP_OK}, etag : BOOLEAN,
          expires : ExpiresValues, xpages : XPagesValues,
          read : {"ok", "null", "conn", "other"}]
    \cup [kind : {"response"}, status : Statuses \ {HTTP_OK}, etag : {FALSE},
          expires : {NoExpires}, xpages : {NoXPages}, read : {"ok"}]

(* PagesConditional trusting the etag alone. *)
PagesConditionalEtagOnly(etag, json, pages) == IsSome(etag)

(* PagesConditional not looking at the page count read. *)
PagesConditionalNoCount(etag, json, pages) == IsSome(etag) /\ IsSome(json)

(* Line 216: when the If-None-Match header is attached. *)
PagesConditional(etag, json, pages) == IsSome(etag) /\ IsSome(json) /\ pages > 0

(* The three setex commands of lines 245-249. *)
PagesWrites(id, body, npages, etag, ttl) ==
    { [key |-> Key("json", id), val |-> JsonDumps(body), ttl |-> ttl],
      [key |-> Key("pages", id), val |-> StrOfInt(npages), ttl |-> ttl],
      [key |-> Key("etag", id), val |-> etag, ttl |-> ttl] }

(* `result_data = list(); result_data.extend(x); break` (lines 252-254,
   258-260): extend(None) raises TypeError after result_data became the empty
   list, and the `except Exception` handler breaks. *)
ExtendAndBreak(r, x) ==
    IF IsSome(x) THEN Break([r EXCEPT !.result_data = Some(Val(x))])
    ELSE Unexpected([r EXCEPT !.result_data = Some(<< >>)])

(* Line 232: int(response.headers.get('X-Pages', 1)). *)
ResponsePages(xp) == IF xp.kind = "absent" THEN 1 ELSE xp.n

(* Lines 231-254: a 200 response for page one. *)
PagesOn200(r, o, ver) ==
    IF o.xpages.kind = "garbage" THEN Unexpected(r)
    ELSE IF o.read = "conn" THEN ConnFailure(r)
    ELSE IF o.read = "other" THEN Unexpected(r)
    ELSE
      LET response_pages == ResponsePages(o.xpages)
          response_json == IF o.read = "ok" THEN Some(Body(r.id, ver)) ELSE None
          response_etag == IF o.etag THEN Some(ETagOf(r.id, ver)) ELSE None
          lifetime == Lifetime(o.expires)
          r1 == [r EXCEPT !.response_json = IF r.traced THEN response_json ELSE @,
                          !.response_etag = IF r.traced THEN response_etag ELSE @,
                          !.response_expires = IF r.traced THEN Some(o.expires) ELSE @]
      IN  IF IsSome(response_etag) /\ IsSome(response_json)
          THEN IF IsNone(lifetime) THEN Unexpected(r1)
               ELSE [r1 EXCEPT !.pc = "write",
                              !.response_pages = response_pages,
                              !.response_json = response_json,
                              !.pending = PagesWrites(r.id, Val(response_json), response_pages,
                                                      Val(response_etag), Val(lifetime))]
          ELSE ExtendAndBreak([r1 EXCEPT !.maxpageno = response_pages], response_json)

(* Lines 256-260: a 304 response for page one. *)
PagesOn304(r) ==
    ExtendAndBreak([r EXCEPT !.maxpageno = r.previous_pages], r.previous_json)

(* Lines 227-281: one pass of the loop body up to its next await. *)
PagesProcess(r, o, ver) ==
    LET a == Attempted(r) IN
    IF o.kind = "connect_error" THEN ConnFailure(a)
    ELSE IF o.kind = "unexpected" THEN Unexpected(a)
    ELSE LET b == Bound(a, o) IN
         IF o.status = HTTP_OK THEN PagesOn200(b, o, ver)
         ELSE IF o.status = NOT_MODIFIED THEN PagesOn304(b)
         ELSE StatusFailure(b, o, GetPermanent)

(* Lines 198-203. *)
PagesReadJson(t, store) ==
    /\ task[t].op = "pages" /\ task[t].pc = "read_json"
    /\ \E ok \in store :
         LET pv == cache[Key("json", task[t].id)] IN
         Upd(t, [AfterRead(task[t], ok) EXCEPT
                   !.pc = "read_pages",
                   !.previous_json = IF ok /\ IsSome(pv)
                                     THEN Some(JsonLoads(Val(pv).val)) ELSE None])
    /\ UNCHANGED <<cache, upstream, completed, cls, db>>

(* Lines 205-210. *)
PagesReadPages(t, store) ==
    /\ task[t].op = "pages" /\ task[t].pc = "read_pages"
    /\ \E ok \in store :
         LET pv == cache[Key("pages", task[t].id)] IN
         Upd(t, [AfterRead(task[t], ok) EXCEPT
                   !.pc = "read_etag",
                   !.previous_pages = IF ok /\ IsSome(pv)
                                      THEN IntOfStr(Val(pv).val) ELSE 0])
    /\ UNCHANGED <<cache, upstream, completed, cls, db>>

(* Lines 212-217. *)
PagesReadEtag(t, store) ==
    /\ task[t].op = "pages" /\ task[t].pc = "read_etag"
    /\ \E ok \in store :
         LET pv == cache[Key("etag", task[t].id)]
             previous_etag == IF ok /\ IsSome(pv) THEN Some(Val(pv).val) ELSE None
             r == [AfterRead(task[t], ok) EXCEPT
                     !.previous_etag = previous_etag,
                     !.inm = IF PagesConditional(previous_etag, task[t].previous_json,
                                                 task[t].previous_pages)
                             THEN previous_etag ELSE None]
         IN Upd(t, [r EXCEPT !.pc = LoopHead(r)])
    /\ UNCHANGED <<cache, upstream, completed, cls, db>>

(* Lines 226-281. *)
PagesAttempt(t, outcomes) ==
    /\ task[t].op = "pages" /\ task[t].pc = "attempt"
    /\ \E o \in outcomes : Upd(t, PagesProcess(task[t], o, upstream[task[t].id]))
    /\ UNCHANGED <<cache, upstream, completed, cls, db>>

(* Line 284: the page numbers still to fetch. *)
RestPages(maxpageno) == 2..maxpageno

(* Lines 283-286 and 296-297: after the loop, the fan-out.  Building the
   task list evaluates request_params | {"page": x}, a TypeError when
   request_params is None. *)
PagesFanOut(t) ==
    /\ task[t].op = "pages" /\ task[t].pc = "return"
    /\ LET r == task[t]
           rest == RestPages(r.maxpageno)
       IN IF IsNone(r.result_data) \/ rest = {}
          THEN Upd(t, Ended(r, Result(r.result_status, r.result_data)))
          ELSE IF IsNone(r.request_params)
          THEN Upd(t, Ended(r, Raised("TypeError")))
          ELSE task' = [p \in DOMAIN task |->
                          IF p = t THEN [r EXCEPT !.pc = "gather"]
                          ELSE IF p \in rest THEN [task[p] EXCEPT !.pc = "read_json"]
                          ELSE task[p]]
    /\ UNCHANGED <<cache, upstream, completed, cls, db>>

(* GatherOrder handing the results back as they complete. *)
GatherOrderAsCompleted(maxpageno, done) == done

(* The order in which asyncio.gather hands back the results: the order of
   the task list, whatever order the fetches completed in. *)
GatherOrder(maxpageno, done) == [i \in 1..(maxpageno - 1) |-> i + 1]

(* Lines 287-294: the loop over the gathered results, from the k-th on.
   extend(None) raises TypeError, and nothing catches it here. *)
RECURSIVE Assemble(_, _, _, _)
Assemble(results, k, status, data) ==
    IF k > Len(results) THEN Result(status, Some(data))
    ELSE LET res == results[k] IN
         IF res.status \in {HTTP_OK, NOT_MODIFIED}
         THEN IF IsNone(res.data) THEN Raised("TypeError")
              ELSE Assemble(results, k + 1, status, data \o Val(res.data))
         ELSE Result(res.status, None)

(* Lines 286-297: gather re-raises the first exception of a page fetch as soon
   as there is one; otherwise, all fetches done, the results are assembled. *)
PagesGather(t) ==
    /\ task[t].op = "pages" /\ task[t].pc = "gather"
    /\ LET r == task[t]
           rest == RestPages(r.maxpageno)
           raised == {p \in rest : IsSome(task[p].out) /\ Val(task[p].out).kind = "raise"}
           order == GatherOrder(r.maxpageno, completed)
       IN IF raised # {}
          THEN \E p \in raised : Upd(t, Ended(r, Val(task[p].out)))
          ELSE /\ \A p \in rest : task[p].pc = "done"
               /\ Upd(t, Ended(r, Assemble([i \in DOMAIN order |-> Val(task[order[i]].out)],
                                           1, r.result_status, Val(r.result_data))))
    /\ UNCHANGED <<cache, upstream, completed, cls, db>>

(* The body and etag entries of the identities ids: none, or those of one
   earlier response each. *)
BodyKeys(ids) == {Key(kind, id) : kind \in {"json", "etag"}, id \in ids}
NoCache(ids) == [k \in BodyKeys(ids) |-> None]
FullCache(ids) ==
    [k \in BodyKeys(ids) |->
       Some(Entry(IF k[1] = "json" THEN JsonDumps(Body(k[2], 1)) ELSE ETagOf(k[2], 1),
                  KV_LIFETIME))]

----------------------------------------------------------------------------
(* Spec: one call (task 1) of get, of post or of pages on identity 1, against
   any earlier cache contents, any behaviour of the upstream and any failure
   of the store.  The page fetches that pages starts are left waiting here;
   SpecPages runs them. *)

Start(r) == [r EXCEPT !.pc = IF r.op = "post" THEN "attempt" ELSE "read_json",
                      !.traced = TRUE]

PagesEntries ==
    {None} \cup {Some(Entry(StrOfInt(n), KV_LIFETIME)) : n \in {0, 1, MaxPages}}

Init ==
    /\ \E op \in {"get", "post", "pages"}, params \in {None, Some("params")} :
         /\ task = [p \in 1..MaxPages |->
                      IF p = 1 THEN Start([NewTask(op, 1) EXCEPT !.request_params = params])
                      ELSE NewTask("get", p)]
         /\ op # "pages" => IsSome(params)
         /\ \E j \in JsonEntries(1, 1), e \in EtagEntries(1, 1), n \in PagesEntries :
              /\ op # "pages" => n = None
              /\ cache = (Key("json", 1) :> j) @@ (Key("etag", 1) :> e) @@ (Key("pages", 1) :> n)
    /\ upstream = [id \in 1..MaxPages |-> MaxVersion]
    /\ completed = << >>
    /\ cls = Loaded
    /\ db = NoRows

Next ==
    \/ GetReadJson(1, Unreliable)
    \/ GetReadEtag(1, Unreliable)
    \/ GetAttempt(1, Outcomes)
    \/ GetReturn(1)
    \/ PostAttempt(1)
    \/ PostReturn(1)
    \/ PagesReadJson(1, Unreliable)
    \/ PagesReadPages(1, Unreliable)
    \/ PagesReadEtag(1, Unreliable)
    \/ PagesAttempt(1, PagesOutcomes)
    \/ PagesFanOut(1)
    \/ Sleep(1)
    \/ CacheWrite(1, Unreliable)

Spec == Init /\ [][Next]_vars

----------------------------------------------------------------------------
(* SpecConc: two concurrent calls of get on the same identity, while the
   resource changes upstream and keys expire.  The store is available and
   the upstream is a faithful HTTP server: it answers 304 only to a request
   whose If-None-Match is the current ETag. *)

FaithfulOutcomes(r, ver) ==
    [kind : {"response"}, status : {HTTP_OK}, etag : {TRUE},
     expires : {NoExpires}, xpages : {NoXPages}, read : {"ok"}]
    \cup [kind : {"response"},
          status : IF r.inm = Some(ETagOf(r.id, ver)) THEN {NOT_MODIFIED} ELSE {},
          etag : {FALSE}, expires : {NoExpires}, xpages : {NoXPages}, read : {"ok"}]
    \cup [kind : {"response"}, status : {500}, etag : {FALSE},
          expires : {NoExpires}, xpages : {NoXPages}, read : {"ok"}]

InitConc ==
    /\ task = [t \in {1, 2} |-> Start(NewTask("get", 1))]
    /\ upstream = [id \in {1} |-> 1]
    /\ cache \in {NoCache({1}), FullCache({1})}
    /\ completed = << >>
    /\ cls = Loaded
    /\ db = NoRows

NextConc ==
    \/ \E t \in {1, 2} : GetReadJson(t, Available)
    \/ \E t \in {1, 2} : GetReadEtag(t, Available)
    \/ \E t \in {1, 2} : GetAttempt(t, FaithfulOutcomes(task[t], upstream[1]))
    \/ \E t \in {1, 2} : Sleep(t)
    \/ \E t \in {1, 2} : CacheWrite(t, Available)
    \/ \E t \in {1, 2} : GetReturn(t)
    \/ CacheExpire
    \/ UpstreamChange

SpecConc == InitConc /\ [][NextConc]_vars

----------------------------------------------------------------------------
(* SpecPages: one call of pages (task 1) and the page fetches it starts
   (task p fetches page p), all interleavings of their steps, in the
   scenario where the store is available and holds nothing or one earlier
   complete response per identity.  The upstream answers page one with 200,
   304, 400 or 500 and a page fetch with 200, 304 or 400, or the connection
   fails (the transient failure of a fetch), and a 200 can have a body that
   does not decode; only page one's responses carry an ETag, and only with a
   body that is not null.  (Spec runs a call against every behaviour of the
   store and of the upstream.) *)

FanOutStatuses == {HTTP_OK, NOT_MODIFIED, BAD_REQUEST, 500}

PageFetchOutcomes ==
    {[kind |-> "connect_error"]}
    \cup [kind : {"response"}, status : {HTTP_OK}, etag : {FALSE},
          expires : {NoExpires}, xpages : {NoXPages}, read : {"ok", "other"}]
    \cup [kind : {"response"}, status : {NOT_MODIFIED, BAD_REQUEST}, etag : {FALSE},
          expires : {NoExpires}, xpages : {NoXPages}, read : {"ok"}]

FirstPageOutcomes ==
    {[kind |-> "connect_error"]}
    \cup {o \in [kind : {"response"}, status : {HTTP_OK}, etag : BOOLEAN,
                 expires : {NoExpires},
                 xpages : {NoXPages} \cup {XPages(n) : n \in 1..MaxPages},
                 read : {"ok", "null"}] :
            o.read = "null" => ~o.etag}
    \cup [kind : {"response"}, status : FanOutStatuses \ {HTTP_OK}, etag : {FALSE},
          expires : {NoExpires}, xpages : {NoXPages}, read : {"ok"}]

InitPages ==
    /\ \E params \in {None, Some("params")} :
         task = [p \in 1..MaxPages |->
                   IF p = 1 THEN Start([NewTask("pages", 1) EXCEPT !.request_params = params])
                   ELSE NewTask("get", p)]
    /\ upstream = [id \in 1..MaxPages |-> MaxVersion]
    /\ cache \in {NoCache(1..MaxPages) @@ (Key("pages", 1) :> None),
                  FullCache(1..MaxPages)
                    @@ (Key("pages", 1) :> Some(Entry(StrOfInt(MaxPages), KV_LIFETIME)))}
    /\ completed = << >>
    /\ cls = Loaded
    /\ db = NoRows

NextPages ==
    \/ PagesReadJson(1, Available)
    \/ PagesReadPages(1, Available)
    \/ PagesReadEtag(1, Available)
    \/ PagesAttempt(1, FirstPageOutcomes)
    \/ PagesFanOut(1)
    \/ PagesGather(1)
    \/ \E t \in 1..MaxPages : Sleep(t)
    \/ CacheWrite(1, Available)
    \/ \E p \in 2..MaxPages : GetReadJson(p, Available)
    \/ \E p \in 2..MaxPages : GetReadEtag(p, Available)
    \/ \E p \in 2..MaxPages : GetAttempt(p, PageFetchOutcomes)
    \/ \E p \in 2..MaxPages : GetReturn(p)

SpecPages == InitPages /\ [][NextPages]_vars

----------------------------------------------------------------------------
(* Properties. *)

Calls == {t \in DOMAIN task : task[t].traced}
Ends(r) == Val(r.out)

(* C1: every call of get, post and pages ends by returning a Result,
   whatever responses and connection-level failures the upstream produces
   and whatever store commands fail: none ends by raising.  (Stated for the
   calls given query parameters and met by no failure other than those.) *)
C1_AlwaysReturnsResult ==
    \A t \in Calls :
      (task[t].pc = "done" /\ IsSome(task[t].request_params) /\ ~task[t].unexpected) =>
         Ends(task[t]).kind = "result"

(* C2: a call makes at most ESI_ERROR_RETRY_COUNT transport attempts, sleeps
   exactly once between two consecutive attempts, and does not sleep after
   its last attempt. *)
C2_RetryDiscipline ==
    \A t \in Calls :
      LET r == task[t] IN
      /\ r.n_attempts <= ESI_ERROR_RETRY_COUNT
      /\ r.pc = "attempt" => r.n_sleeps = r.n_attempts
      /\ r.pc = "sleep" => r.n_sleeps = r.n_attempts - 1
      /\ (r.pc \in {"write", "return", "gather", "done"} /\ r.n_attempts > 0) =>
            r.n_sleeps = r.n_attempts - 1 /\ r.last_event = "attempt"

(* C2 witness: a call whose whole budget went into failed attempts has
   reached the end of its loop. *)
C2_Witness ==
    \E t \in Calls :
      /\ task[t].pc = "return" /\ IsNone(task[t].result_data)
      /\ task[t].n_attempts = ESI_ERROR_RETRY_COUNT
      /\ task[t].n_sleeps = ESI_ERROR_RETRY_COUNT - 1

(* C3: once a GET (get, or page one of pages) has been answered 400 or 403,
   the call makes no further transport attempt and no backoff sleep. *)
C3_PermanentStops ==
    \A t \in Calls :
      (task[t].op \in {"get", "pages"} /\ task[t].perm_seen) =>
         task[t].pc \notin {"attempt", "sleep"}

(* C4: a 401 ends post without another attempt or sleep, and a 401 to get is
   retried while the budget has attempts left. *)
C4_UnauthorizedAsymmetry ==
    \A t \in Calls :
      LET r == task[t] IN
      r.result_status = UNAUTHORIZED =>
        /\ r.op = "post" => r.pc \notin {"attempt", "sleep"}
        /\ (r.op = "get" /\ r.n_attempts < ESI_ERROR_RETRY_COUNT) =>
              r.pc \in {"attempt", "sleep"}

(* C5: a get that found no cached body (the key absent, or its read failed)
   sends no If-None-Match header on any attempt, whatever etag is cached. *)
C5_NoBodyNoValidator ==
    \A t \in Calls :
      (task[t].op = "get" /\ task[t].pc \notin {"idle", "read_json"}
         /\ IsNone(task[t].previous_json)) =>
        IsNone(task[t].inm) /\ ~task[t].sent_inm

(* C5 witness: a get read an etag but no body, and has made an attempt. *)
C5_Witness ==
    \E t \in Calls :
      /\ task[t].op = "get" /\ IsNone(task[t].previous_json)
      /\ IsSome(task[t].previous_etag) /\ task[t].n_attempts > 0

(* C6: a get returning a 304 Result with data validated, with its
   If-None-Match, the etag stored together with that very body: the body and
   the etag it read belong to one cached response, also while a concurrent
   get on the same identity replaces both between its two reads. *)
C6_TornReadFallsBack ==
    \A t \in Calls :
      LET r == task[t] IN
      (r.op = "get" /\ r.pc = "done" /\ Ends(r).kind = "result"
         /\ Ends(r).status = NOT_MODIFIED /\ IsSome(Ends(r).data)) =>
        \E v \in 1..MaxVersion :
           r.inm = Some(ETagOf(r.id, v)) /\ Ends(r).data = Some(Body(r.id, v))

(* C7: a get answered 304 while it has no cached body to reuse makes no
   further attempt and returns a Result with status 304 and no data. *)
C7_NotModifiedWithoutBody ==
    \A t \in Calls :
      LET r == task[t] IN
      (r.op = "get" /\ r.result_status = NOT_MODIFIED /\ IsNone(r.previous_json)) =>
        /\ r.pc \in {"return", "done"}
        /\ IsNone(r.result_data)
        /\ r.pc = "done" => r.out = Some(Result(NOT_MODIFIED, None))

(* C7 witness: such a get has returned. *)
C7_Witness ==
    \E t \in Calls :
      /\ task[t].op = "get" /\ task[t].pc = "done" /\ IsNone(task[t].previous_json)
      /\ task[t].out = Some(Result(NOT_MODIFIED, None))

(* The fetches of pages 2..maxpageno that a call of pages started. *)
Fetches(r) == IF r.pc \in {"gather", "done"} /\ IsSome(r.result_data)
                   /\ IsSome(r.request_params)
              THEN RestPages(r.maxpageno) ELSE {}
Returned(p) == task[p].pc = "done" /\ Ends(task[p]).kind = "result"
Succeeded(p) == Returned(p) /\ Ends(task[p]).status \in {HTTP_OK, NOT_MODIFIED}
Failed(p) == Returned(p) /\ Ends(task[p]).status \notin {HTTP_OK, NOT_MODIFIED}

(* C8: pages is all-or-nothing: its Result carries data only if every page
   2..N succeeded, and when a page 2..N ended with a failing status the
   Result has no data and the status of a failing page. *)
C8_AllOrNothing ==
    \A t \in Calls :
      LET r == task[t] IN
      (r.op = "pages" /\ r.pc = "done" /\ Fetches(r) # {}) =>
        /\ (Ends(r).kind = "result" /\ IsSome(Ends(r).data)) =>
              \A p \in Fetches(r) : Succeeded(p)
        /\ (\E p \in Fetches(r) : Failed(p)) =>
              /\ Ends(r).kind = "result" /\ IsNone(Ends(r).data)
              /\ \E p \in Fetches(r) : Failed(p) /\ Ends(r).status = Ends(task[p]).status

(* C9: when the fetch of a page 2..N ended with status 200 or 304 and no
   data, pages returns a Result without data: it neither raises nor returns
   a partial sequence. *)
C9_PageWithoutDataFails ==
    \A t \in Calls :
      LET r == task[t] IN
      (r.op = "pages" /\ r.pc = "done"
         /\ \E p \in Fetches(r) : Succeeded(p) /\ IsNone(Ends(task[p]).data)) =>
        Ends(r).kind = "result" /\ IsNone(Ends(r).data)

(* The items of pages p..last, in page order. *)
RECURSIVE InPageOrder(_, _)
InPageOrder(p, last) ==
    IF p > last THEN << >>
    ELSE Val(Ends(task[p]).data) \o InPageOrder(p + 1, last)

(* C10: the sequence a successful pages returns is page one's items followed
   by the items of pages 2..N in increasing page order, whatever order the
   fetches completed in. *)
C10_PageOrder ==
    \A t \in Calls :
      LET r == task[t] IN
      (r.op = "pages" /\ r.pc = "done" /\ Fetches(r) # {}
         /\ Ends(r).kind = "result" /\ IsSome(Ends(r).data)) =>
        Ends(r).data = Some(Val(r.result_data) \o InPageOrder(2, r.maxpageno))

(* C10 witness: pages returned data though a later page's fetch completed
   before an earlier page's. *)
C10_Witness ==
    \E t \in Calls :
      /\ task[t].op = "pages" /\ task[t].pc = "done" /\ Fetches(task[t]) # {}
      /\ Ends(task[t]).kind = "result" /\ IsSome(Ends(task[t]).data)
      /\ \E i, j \in DOMAIN completed : i < j /\ completed[i] > completed[j]

(* The page fetches a call of pages has issued so far: task p is the get
   whose query parameters carry page p. *)
Issued(t) == {p \in DOMAIN task \ {t} : task[p].pc # "idle"}

(* C11: when page one of pages succeeded with a reported total of P pages,
   pages has issued one fetch for each page 2..P and no other (none when
   P <= 1). *)
C11_OneFetchPerPage ==
    \A t \in Calls :
      LET r == task[t] IN
      (r.op = "pages" /\ r.pc \in {"gather", "done"}
         /\ r.result_status = HTTP_OK /\ IsSome(r.result_data)) =>
        Issued(t) = RestPages(r.maxpageno)

----------------------------------------------------------------------------
(* SpecStore: a call of get or of pages (task 1) against any cache contents
   and a store whose every command may fail, run side by side with the same
   call on an empty cache (task 0, which therefore enters its loop with
   nothing read).  Both receive the same upstream answer on each attempt:
   a status of FanOutStatuses, or no response; the upstream answers 304 only
   to a request carrying If-None-Match. *)

Twin == 0

AnswersTo(r, outcomes) ==
    {o \in outcomes :
       o.kind = "response" =>
         /\ o.status \in FanOutStatuses
         /\ o.status = NOT_MODIFIED => IsSome(r.inm)}

(* Lines 83-128 and 227-281 for one call. *)
Process(r, o, ver) ==
    IF r.op = "get" THEN GetProcess(r, o, ver) ELSE PagesProcess(r, o, ver)

LeftLoop(r) == r.pc \in {"return", "gather", "done"}

(* The next attempt of the two calls gets one and the same answer; a call
   whose partner has left its loop goes on alone. *)
BothAttempt ==
    /\ \E t \in {Twin, 1} : task[t].pc = "attempt"
    /\ \A t \in {Twin, 1} : task[t].pc = "attempt" \/ LeftLoop(task[t])
    /\ \E o \in AnswersTo(task[1], IF task[1].op = "get" THEN Outcomes ELSE PagesOutcomes) :
         task' = [t \in DOMAIN task |->
                    IF t \in {Twin, 1} /\ task[t].pc = "attempt"
                    THEN Process(task[t], o, upstream[1]) ELSE task[t]]
    /\ UNCHANGED <<cache, upstream, completed, cls, db>>

InitStore ==
    /\ \E op \in {"get", "pages"} :
         /\ task = [p \in 0..MaxPages |->
                      IF p = 1 THEN Start(NewTask(op, 1))
                      ELSE IF p = Twin
                      THEN [Start(NewTask(op, 1)) EXCEPT !.pc = LoopHead(NewTask(op, 1))]
                      ELSE NewTask("get", p)]
         /\ \E j \in JsonEntries(1, 1), e \in EtagEntries(1, 1), n \in PagesEntries :
              /\ op # "pages" => n = None
              /\ cache = (Key("json", 1) :> j) @@ (Key("etag", 1) :> e) @@ (Key("pages", 1) :> n)
    /\ upstream = [id \in 1..MaxPages |-> MaxVersion]
    /\ completed = << >>
    /\ cls = Loaded
    /\ db = NoRows

NextStore ==
    \/ GetReadJson(1, Unreliable)
    \/ GetReadEtag(1, Unreliable)
    \/ PagesReadJson(1, Unreliable)
    \/ PagesReadPages(1, Unreliable)
    \/ PagesReadEtag(1, Unreliable)
    \/ BothAttempt
    \/ \E t \in {Twin, 1} : Sleep(t)
    \/ CacheWrite(1, Unreliable)
    \/ CacheWrite(Twin, Available)
    \/ \E t \in {Twin, 1} : GetReturn(t)
    \/ \E t \in {Twin, 1} : PagesFanOut(t)

SpecStore == InitStore /\ [][NextStore]_vars

(* C12: a call of get or pages some of whose store commands failed is not
   failed by that: after the same upstream answers it leaves its loop when
   the call on an empty cache does, and ends as that call ends; and after a
   failed read its requests carry no If-None-Match. *)
C12_StoreFailureIsEmptyCache ==
    LET a == task[1]
        b == task[Twin]
    IN  a.store_failed # "none" =>
          /\ (a.pc = "done" /\ b.pc = "done") => a.out = b.out
          /\ (a.n_attempts = b.n_attempts /\ a.pc \notin {"read_json", "read_pages", "read_etag"}) =>
                (a.pc \in {"attempt", "sleep"} <=> b.pc \in {"attempt", "sleep"})
          /\ (a.n_attempts = b.n_attempts /\ LeftLoop(a) /\ LeftLoop(b)) =>
                /\ a.result_status = b.result_status
                /\ a.result_data = b.result_data
                /\ a.maxpageno = b.maxpageno
          /\ (a.store_failed = "read" /\ a.pc \notin {"read_json", "read_pages", "read_etag"}) =>
                IsNone(a.inm) /\ ~a.sent_inm

(* C12 witness: a call that had a cached body and etag to read, one of its
   reads failed, and it has returned data. *)
C12_Witness ==
    /\ task[1].store_failed = "read" /\ task[1].pc = "done" /\ task[Twin].pc = "done"
    /\ IsSome(cache[Key("etag", 1)])
    /\ IsSome(task[1].previous_json) /\ IsNone(task[1].previous_etag)
    /\ Ends(task[1]).kind = "result" /\ IsSome(Ends(task[1]).data)

(* The statuses that end the loop of a call at once. *)
Permanent(r) == IF r.op = "post" THEN PostPermanent ELSE GetPermanent

(* A call whose loop ended because transient failures used up its budget. *)
Exhausted(r) ==
    /\ r.pc = "done" /\ r.attempts_remaining <= 0 /\ IsNone(r.result_data)
    /\ ~r.unexpected /\ ~r.perm_seen /\ r.result_status \notin Permanent(r)

(* C13: a call whose budget was used up by transient failures returns a
   Result without data and with the status of the last response it received
   (404, the initial value, when it received none). *)
C13_ExhaustedBudgetResult ==
    \A t \in Calls :
      Exhausted(task[t]) =>
        /\ Ends(task[t]) = Result(task[t].result_status, None)
        /\ ~task[t].response => task[t].result_status = NOT_FOUND

(* C14: a Result returned by get has data only with status 200 or 304. *)
C14_DataOnlyOnSuccess ==
    \A t \in DOMAIN task :
      (task[t].op = "get" /\ task[t].pc = "done" /\ Ends(task[t]).kind = "result"
         /\ IsSome(Ends(task[t]).data)) =>
        Ends(task[t]).status \in {HTTP_OK, NOT_MODIFIED}

(* C14 witness: a get whose first attempt failed has returned data. *)
C14_Witness ==
    \E t \in Calls :
      /\ task[t].op = "get" /\ task[t].pc = "done" /\ task[t].n_attempts > 1
      /\ Ends(task[t]).kind = "result" /\ IsSome(Ends(task[t]).data)

----------------------------------------------------------------------------
(* AppESI.status and SpecStatus: one call of status (task Probe), which
   awaits a get (task 1) on the status resource, against any cache contents,
   any behaviour of the store and of the upstream, and any status document. *)

Probe == 0

(* The "players" member of the status document: absent, an integer, or a
   value int() cannot convert.  The "vip" member: absent, true or false. *)
NoPlayers == [kind |-> "absent"]
BadPlayers == [kind |-> "garbage"]
Players(n) == [kind |-> "int", n |-> n]
Docs ==
    [players : {NoPlayers, BadPlayers} \cup {Players(n) : n \in {50, PLAYERS_MIN, PLAYERS_MIN + 1, 500}},
     vip : {"absent", "true", "false"}]

Returns(b) == [kind |-> "bool", val |-> b]

(* Line 180: all([int(data.get("players", 0)) > 128, bool(data.get("vip", False)) is False]). *)
Healthy(doc) ==
    IF doc.players.kind = "garbage" THEN Raised("ValueError")
    ELSE LET players == IF doc.players.kind = "absent" THEN 0 ELSE doc.players.n
             vip == doc.vip = "true"
         IN Returns(players > PLAYERS_MIN /\ ~vip)

(* Lines 177-183: what status does with how its get ended. *)
StatusEnd(got, doc) ==
    IF got.kind = "raise" THEN got
    ELSE IF got.status \in {HTTP_OK, NOT_MODIFIED} /\ IsSome(got.data) THEN Healthy(doc)
    ELSE Returns(FALSE)

StatusReturn ==
    /\ task[Probe].op = "status" /\ task[Probe].pc = "await_get" /\ task[1].pc = "done"
    /\ \E doc \in Docs :
         Upd(Probe, [task[Probe] EXCEPT !.pc = "done", !.doc = Some(doc),
                                        !.out = Some(StatusEnd(Ends(task[1]), doc))])
    /\ UNCHANGED <<cache, upstream, completed, cls, db>>

InitStatus ==
    /\ task = [p \in {Probe, 1} |->
                 IF p = 1 THEN Start(NewTask("get", 1))
                 ELSE [NewTask("status", 1) EXCEPT !.pc = "await_get"]]
    /\ \E j \in JsonEntries(1, 1), e \in EtagEntries(1, 1) :
         cache = (Key("json", 1) :> j) @@ (Key("etag", 1) :> e)
    /\ upstream = [id \in {1} |-> MaxVersion]
    /\ completed = << >>
    /\ cls = Loaded
    /\ db = NoRows

NextStatus ==
    \/ GetReadJson(1, Unreliable)
    \/ GetReadEtag(1, Unreliable)
    \/ GetAttempt(1, Outcomes)
    \/ Sleep(1)
    \/ CacheWrite(1, Unreliable)
    \/ GetReturn(1)
    \/ StatusReturn

SpecStatus == InitStatus /\ [][NextStatus]_vars

(* C15: status returns true exactly when its get ended with status 200 or
   304 and data whose players exceed 128 and whose vip is not true, and
   returns false after every other outcome of the get, also when no attempt
   obtained a response.  (Stated for documents whose players is a number
   and for a get that met responses and connection failures only.) *)
C15_StatusProbe ==
    LET r == task[Probe]
        g == task[1]
        doc == Val(r.doc)
    IN  (r.op = "status" /\ r.pc = "done" /\ doc.players # BadPlayers /\ ~g.unexpected) =>
          /\ Ends(r).kind = "bool"
          /\ Ends(r).val <=>
               /\ g.response /\ g.result_status \in {HTTP_OK, NOT_MODIFIED}
               /\ IsSome(g.result_data)
               /\ doc.players.kind = "int" /\ doc.players.n > PLAYERS_MIN
               /\ doc.vip # "true"

(* C16: no step of a call of post changes a cache entry, and post reads
   none: it holds no cached body or etag and sends no If-None-Match. *)
C16_PostLeavesCacheAlone ==
    [][\A t \in Calls :
         task[t].op = "post" =>
           /\ cache' = cache
           /\ IsNone(task'[t].previous_json) /\ IsNone(task'[t].previous_etag)
           /\ IsNone(task'[t].inm) /\ task'[t].pending = {}]_vars

(* C16 witness: a post has returned the body of a 200 while the cache holds
   a body and an etag for the identity. *)
C16_Witness ==
    \E t \in Calls :
      /\ task[t].op = "post" /\ task[t].pc = "done" /\ IsSome(Ends(task[t]).data)
      /\ IsSome(cache[Key("json", 1)]) /\ IsSome(cache[Key("etag", 1)])

(* The step in which call t makes an attempt that a response answers. *)
AnsweredAttempt(t) ==
    /\ task'[t].n_attempts = task[t].n_attempts + 1
    /\ task'[t].answered

(* C17: post has data only when its last response was a 200, and an attempt
   answered with any other status takes the failure path: the remaining
   attempts decrease, a status of the permanent set ends the loop, and any
   other is followed by the backoff sleep while attempts remain. *)
C17_PostSuccessIs200Only ==
    [][\A t \in Calls :
         task[t].op = "post" =>
           /\ IsSome(task'[t].result_data) => task'[t].result_status = HTTP_OK
           /\ (AnsweredAttempt(t) /\ task'[t].result_status # HTTP_OK) =>
                /\ IsNone(task'[t].result_data)
                /\ task'[t].attempts_remaining < task[t].attempts_remaining
                /\ task'[t].result_status \in PostPermanent => task'[t].pc = "return"
                /\ task'[t].result_status \notin PostPermanent =>
                     task'[t].pc = IF task'[t].attempts_remaining > 0 THEN "sleep" ELSE "return"]_vars

----------------------------------------------------------------------------
(* AppESI.url and the cache keys, and SpecKeys: two calls of get on one URL
   (tasks 1 and 2), each with its own query parameters and Authorization
   header, against an available store and a faithful upstream.  Query
   parameters are a mapping in the order the caller built it: a sequence of
   <<name, value>> pairs with distinct names. *)

(* Lines 49-53: yarl.URL(url), and update_query(params) when params is not
   empty; update_query writes the members in the order of the mapping. *)
Url(url, params) ==
    [base |-> url, query |-> IF IsSome(params) THEN Val(params) ELSE << >>]

(* Two mappings with the same members (dict equality). *)
Members(params) ==
    IF IsSome(params) THEN {Val(params)[i] : i \in DOMAIN Val(params)} ELSE {}
SameParameters(p, q) == Members(p) = Members(q)

ParamMappings ==
    {None, Some(<< <<"datasource", "tq">> >>),
     Some(<< <<"datasource", "tq">>, <<"language", "en">> >>),
     Some(<< <<"language", "en">>, <<"datasource", "tq">> >>)}

Identities == {Url("url", p) : p \in ParamMappings}

(* Lines 60-62: redis_url, etag_key and json_key of the call. *)
ComputeKeys(t) ==
    /\ task[t].pc = "start"
    /\ Upd(t, [task[t] EXCEPT !.id = Url(task[t].url, task[t].request_params),
                              !.pc = "read_json"])
    /\ UNCHANGED <<cache, upstream, completed, cls, db>>

InitKeys ==
    /\ \E p \in ParamMappings, a \in {None, Some("Bearer")} :
         task = [t \in {1, 2} |->
                   [Start(NewTask("get", None)) EXCEPT
                      !.pc = "start",
                      !.request_params = IF t = 1 THEN Some(<< <<"datasource", "tq">>,
                                                               <<"language", "en">> >>)
                                         ELSE p,
                      !.auth = IF t = 1 THEN None ELSE a]]
    /\ cache = [k \in {Key(kind, id) : kind \in {"json", "etag"}, id \in Identities} |-> None]
    /\ upstream = [id \in Identities |-> 1]
    /\ completed = << >>
    /\ cls = Loaded
    /\ db = NoRows

NextKeys ==
    \/ \E t \in {1, 2} : ComputeKeys(t)
    \/ \E t \in {1, 2} : GetReadJson(t, Available)
    \/ \E t \in {1, 2} : GetReadEtag(t, Available)
    \/ \E t \in {1, 2} : GetAttempt(t, FaithfulOutcomes(task[t], upstream[task[t].id]))
    \/ \E t \in {1, 2} : Sleep(t)
    \/ \E t \in {1, 2} : CacheWrite(t, Available)
    \/ \E t \in {1, 2} : GetReturn(t)

SpecKeys == InitKeys /\ [][NextKeys]_vars

(* C18: two calls with the same URL and the same query parameters use the
   same cache keys, whatever their Authorization headers are. *)
C18_KeysFromUrlAndParameters ==
    \A t, u \in DOMAIN task :
      (/\ task[t].pc \notin {"idle", "start"} /\ task[u].pc \notin {"idle", "start"}
       /\ task[t].url = task[u].url
       /\ SameParameters(task[t].request_params, task[u].request_params)) =>
        \A kind \in {"json", "etag", "pages"} :
           Key(kind, task[t].id) = Key(kind, task[u].id)

(* The TTL the entries of a response with this Expires header are due. *)
DueLifetime(expires) ==
    IF expires.kind = "absent" THEN {KV_LIFETIME}
    ELSE IF expires.kind = "date" THEN {expires.ahead}
    ELSE {}

(* C19: each cache entry written from a 200 response is written with the
   number of seconds to the response's Expires when it has that header, and
   with the default 3600 when it has none. *)
C19_WrittenLifetime ==
    [][\A k \in DOMAIN cache :
         cache'[k] # cache[k] =>
           \E t \in Calls :
              /\ IsSome(cache'[k]) /\ IsSome(task[t].response_expires)
              /\ Val(cache'[k]).ttl \in DueLifetime(Val(task[t].response_expires))]_vars

(* C19 witness: an entry was written from a response whose Expires is 120
   seconds ahead. *)
C19_Witness ==
    \E k \in DOMAIN cache, t \in Calls :
      /\ task[t].response_expires = Some(ExpiresIn(120))
      /\ IsSome(cache[k]) /\ Val(cache[k]).ttl = 120

----------------------------------------------------------------------------
(* SpecFactory: a process from its import of the module on: calls of
   factory with any logger, and a get (task 1) made through the instance
   once there is one, against an available store and a faithful upstream. *)

(* A caller holding the instance starts a get. *)
CallGet(t) ==
    /\ task[t].pc = "idle" /\ IsSome(cls.SELF)
    /\ Upd(t, Start(task[t]))
    /\ UNCHANGED <<cache, upstream, completed, cls, db>>

InitFactory ==
    /\ task = [t \in {1} |-> NewTask("get", 1)]
    /\ cache \in {NoCache({1}), FullCache({1})}
    /\ upstream = [id \in {1} |-> MaxVersion]
    /\ completed = << >>
    /\ cls = Imported
    /\ db = NoRows

NextFactory ==
    \/ \E logger \in Loggers : Factory(logger)
    \/ CallGet(1)
    \/ GetReadJson(1, Available)
    \/ GetReadEtag(1, Available)
    \/ GetAttempt(1, FaithfulOutcomes(task[1], upstream[1]))
    \/ Sleep(1)
    \/ CacheWrite(1, Available)
    \/ GetReturn(1)

SpecFactory == InitFactory /\ [][NextFactory]_vars

(* C20: every call of factory returns one and the same instance: one
   connection pool and one instance are made, by the first call, whatever
   loggers the later calls pass. *)
C20_FactorySingleton ==
    /\ Cardinality(cls.returned) <= 1
    /\ cls.pools <= 1
    /\ cls.calls > 0 => cls.returned = {Val(cls.SELF)} /\ cls.pools = 1

(* C20 witness: factory was called MaxFactoryCalls times, with different
   loggers. *)
C20_Witness ==
    /\ cls.calls = MaxFactoryCalls
    /\ cls.loggers = Loggers

----------------------------------------------------------------------------
(* Page one of a call of pages failed: its loop ended without data, with a
   failing status, or in the `except Exception` handler. *)
PageOneFailed(r) ==
    \/ IsNone(r.result_data)
    \/ r.result_status \notin {HTTP_OK, NOT_MODIFIED}
    \/ r.unexpected

(* C21: pages starts no fetch of a page 2..N while page one's loop is
   running, and none at all when page one failed. *)
C21_PageOneBeforeTheRest ==
    \A t \in Calls :
      LET r == task[t] IN
      r.op = "pages" =>
        /\ ~LeftLoop(r) => Issued(t) = {}
        /\ (LeftLoop(r) /\ PageOneFailed(r)) => Issued(t) = {}

(* The cache holds a body, an etag and a positive page count for the
   identity of call r. *)
HoldsCollection(r) ==
    /\ IsSome(cache[Key("json", r.id)]) /\ IsSome(cache[Key("etag", r.id)])
    /\ IsSome(cache[Key("pages", r.id)])
    /\ IntOfStr(Val(cache[Key("pages", r.id)]).val) > 0

(* C22: the first-page request of pages carries If-None-Match, with the
   cached etag, exactly when a cached body, a cached etag and a cached page
   count above zero were all read; when one of them is missing or its read
   failed, the request is unconditional. *)
C22_FirstPageConditional ==
    \A t \in Calls :
      LET r == task[t] IN
      (r.op = "pages" /\ r.pc \notin {"idle", "read_json", "read_pages", "read_etag"}) =>
        /\ IsSome(r.inm) <=>
             (IsSome(r.previous_json) /\ IsSome(r.previous_etag) /\ r.previous_pages > 0)
        /\ r.sent_inm => IsSome(r.inm)
        /\ r.pc \in {"attempt", "sleep"} =>
             /\ IsSome(r.inm) =>
                  /\ HoldsCollection(r) /\ r.store_failed = "none"
                  /\ r.inm = Some(Val(cache[Key("etag", r.id)]).val)
             /\ (HoldsCollection(r) /\ r.store_failed = "none") => IsSome(r.inm)

(* C22 witness: a pages that read all three has sent a conditional request
   and is to retry it. *)
C22_Witness ==
    \E t \in Calls :
      /\ task[t].op = "pages" /\ task[t].pc = "attempt" /\ task[t].n_attempts > 0
      /\ task[t].sent_inm /\ task[t].previous_pages > 0

(* The fetch of page p is in its loop with request_headers as line 76 left
   them, and has sent a request with them. *)
InLoop(p) == task[p].op = "get" /\ task[p].pc \in {"attempt", "sleep", "write", "return"}
PageRequest(p) == task[p].op = "get" /\ task[p].pc \in {"sleep", "write", "return"}

(* C23: no request that pages issues for a page 2..N carries an
   If-None-Match header, whatever the cache holds for that page's identity. *)
C23_PageFetchesUnconditional ==
    \A t \in Calls : \A p \in Issued(t) :
      PageRequest(p) => IsNone(task[p].inm)

(* C23 as amended: a request for a page 2..N carries If-None-Match, with the
   etag read, exactly when the page's get read both a cached body and a
   cached etag for that page's identity, and is unconditional otherwise. *)
C23_PageFetchesConditionalOnCache ==
    \A t \in Calls : \A p \in Issued(t) :
      InLoop(p) =>
        /\ IsSome(task[p].inm) <=>
             (IsSome(task[p].previous_json) /\ IsSome(task[p].previous_etag))
        /\ IsSome(task[p].inm) => task[p].inm = task[p].previous_etag

(* C23 witness: pages returned data of which the fetch of a page, answered
   304 to its conditional request, contributed the cached body. *)
C23_Witness ==
    \E t \in Calls :
      /\ task[t].op = "pages" /\ task[t].pc = "done"
      /\ Ends(task[t]).kind = "result" /\ IsSome(Ends(task[t]).data)
      /\ \E p \in Fetches(task[t]) :
           /\ Succeeded(p) /\ Ends(task[p]).status = NOT_MODIFIED
           /\ IsSome(Ends(task[p]).data) /\ IsSome(cache[Key("etag", p)])

(* The body or etag entry k was written from the response the upstream
   gives now; the entries of earlier calls are of version 1. *)
WrittenNow(k) ==
    /\ IsSome(cache[k])
    /\ \E v \in 2..MaxVersion :
         Val(cache[k]).val \in {JsonDumps(Body(k[2], v)), ETagOf(k[2], v)}

(* C24: after a pages that failed because the fetch of a page 2..N failed,
   the cache holds no entry written during that call. *)
C24_NoPartialCollectionCached ==
    \A t \in Calls :
      LET r == task[t] IN
      (r.op = "pages" /\ r.pc = "done" /\ \E p \in Fetches(r) : Failed(p)) =>
        \A k \in DOMAIN cache : ~WrittenNow(k)

----------------------------------------------------------------------------
(* SpecSiblings: SpecPages on an empty cache with the page fetches observed
   as the call is: each keeps the history of its attempts. *)

InitSiblings ==
    /\ task = [p \in 1..MaxPages |->
                 IF p = 1 THEN Start(NewTask("pages", 1))
                 ELSE [NewTask("get", p) EXCEPT !.traced = TRUE]]
    /\ upstream = [id \in 1..MaxPages |-> MaxVersion]
    /\ cache = NoCache(1..MaxPages) @@ (Key("pages", 1) :> None)
    /\ completed = << >>
    /\ cls = Loaded
    /\ db = NoRows

SpecSiblings == InitSiblings /\ [][NextPages]_vars

(* The latest attempt of call r met a connection-level failure. *)
ConnectionFailed(r) == r.n_attempts > 0 /\ ~r.answered

(* C25: when an attempt of the fetch of a page met a connection-level
   failure, every fetch of the same pages call still runs to its end and
   pages returns a Result.  (Stated for calls in which no fetch ended with a
   success status and no data.) *)
C25_ConnectionFailureSparesSiblings ==
    LET r == task[1] IN
    (/\ r.op = "pages" /\ r.pc = "done"
     /\ \E p \in Fetches(r) : ConnectionFailed(task[p])
     /\ ~\E p \in Fetches(r) : Succeeded(p) /\ IsNone(Ends(task[p]).data)) =>
      /\ Ends(r).kind = "result"
      /\ \A q \in Fetches(r) : task[q].pc = "done"

----------------------------------------------------------------------------
(* C26: an unexpected failure during an attempt ends the loop at once, with
   no further attempt or sleep, and the call returns a Result without data
   and with the last status observed (404 when no response was observed). *)
C26_UnexpectedFailureEndsCall ==
    \A t \in Calls :
      LET r == task[t] IN
      r.unexpected =>
        /\ LeftLoop(r) /\ r.last_event = "attempt"
        /\ ~r.response => r.result_status = NOT_FOUND
        /\ r.pc = "done" => Ends(r) = Result(r.result_status, None)

(* The 200-class statuses among those the upstream answers with. *)
SuccessClass == {s \in Statuses : s \in 200..299}

(* C27: a get answered with a 200-class status ends its loop and returns
   that status with the decoded body; a get retries only after a status
   that is neither 200-class nor 304, 400 or 403. *)
C27_SuccessClassEndsGet ==
    \A t \in Calls :
      LET r == task[t] IN
      (r.op = "get" /\ r.n_attempts > 0 /\ r.answered) =>
        /\ r.pc \in {"attempt", "sleep"} =>
             r.result_status \notin SuccessClass \cup {NOT_MODIFIED, BAD_REQUEST, FORBIDDEN}
        /\ (r.result_status \in SuccessClass /\ ~r.unexpected /\ r.pc = "done") =>
             Ends(r) = Result(r.result_status, r.result_data)

(* The decoded body of the 200 response that call r received. *)
ResponseBody(r) == IF r.op = "pages" THEN r.response_json ELSE r.result_data

(* Call r received a 200 response with an ETag, a body and an Expires
   header that cannot be parsed. *)
UnparseableExpires(r) ==
    /\ r.op \in {"get", "pages"} /\ r.result_status = HTTP_OK
    /\ IsSome(r.response_etag) /\ IsSome(ResponseBody(r))
    /\ r.response_expires = Some(BadExpires)

(* C28: a get or a pages that received a 200 response with an ETag, a body
   and an Expires header that cannot be parsed returns the body, and has
   written the body and the etag with the default lifetime (when no store
   command failed). *)
C28_UnparseableExpiresFallsBack ==
    \A t \in Calls :
      LET r == task[t] IN
      (UnparseableExpires(r) /\ r.pc = "done") =>
        /\ Ends(r) = Result(HTTP_OK, ResponseBody(r))
        /\ r.store_failed = "none" =>
             /\ cache[Key("json", r.id)] =
                  Some(Entry(JsonDumps(Val(ResponseBody(r))), KV_LIFETIME))
             /\ cache[Key("etag", r.id)] = Some(Entry(Val(r.response_etag), KV_LIFETIME))

----------------------------------------------------------------------------
(* The latest response to call r is a 200 with an ETag and a body that is
   not null. *)
Cacheable(r) ==
    /\ r.op \in {"get", "pages"} /\ r.result_status = HTTP_OK
    /\ IsSome(r.response_etag) /\ IsSome(ResponseBody(r))

(* The sub-keys under which a call keeps a response. *)
SubKeys(r) ==
    {Key(kind, r.id) : kind \in IF r.op = "pages" THEN {"json", "pages", "etag"}
                                ELSE {"json", "etag"}}

(* C29: get and pages send setex commands only for a 200 response with an
   ETag and a body that is not null, one for each sub-key and all with one
   TTL; a cache entry changes only by such a command, so every other outcome
   leaves every entry and its lifetime as they were. *)
C29_WritesOnlyFromCacheable ==
    [][/\ \A t \in Calls :
            (task[t].pending = {} /\ task'[t].pending # {}) =>
               /\ Cacheable(task'[t])
               /\ {w.key : w \in task'[t].pending} = SubKeys(task'[t])
               /\ \A w1, w2 \in task'[t].pending : w1.ttl = w2.ttl
       /\ \A k \in DOMAIN cache :
            cache'[k] # cache[k] =>
               \E t \in Calls : \E w \in task[t].pending :
                  /\ Cacheable(task[t]) /\ w.key = k
                  /\ cache'[k] = Some(Entry(w.val, w.ttl))]_vars

(* C29 witness: a pages has returned and its three sub-keys are in the
   cache with the lifetime of its response's Expires. *)
C29_Witness ==
    \E t \in Calls :
      /\ task[t].op = "pages" /\ task[t].pc = "done" /\ Cacheable(task[t])
      /\ task[t].response_expires = Some(ExpiresIn(120))
      /\ \A k \in SubKeys(task[t]) : IsSome(cache[k]) /\ Val(cache[k]).ttl = 120

----------------------------------------------------------------------------
(* C30: a call sleeping after a failing status sleeps the base delay times
   the multiplier the table gives that status (1 when it gives none), a call
   sleeping after a connection-level failure sleeps the base delay, whatever
   the number of attempts made; no delay is set outside a sleep. *)
C30_BackoffDelay ==
    \A t \in Calls :
      LET r == task[t]
          listed == r.result_status \in DOMAIN ESI_ERROR_SLEEP_MODIFIERS
      IN  /\ r.pc # "sleep" => r.delay = 0
          /\ (r.pc = "sleep" /\ ~r.answered) => r.delay = ESI_ERROR_SLEEP_TIME
          /\ (r.pc = "sleep" /\ r.answered /\ listed) =>
                r.delay = ESI_ERROR_SLEEP_TIME * ESI_ERROR_SLEEP_MODIFIERS[r.result_status]
          /\ (r.pc = "sleep" /\ r.answered /\ ~listed) => r.delay = ESI_ERROR_SLEEP_TIME

(* C30 witness: a call sleeps after its second attempt, which was answered
   with a status of the table. *)
C30_Witness ==
    \E t \in Calls :
      /\ task[t].pc = "sleep" /\ task[t].n_attempts = 2 /\ task[t].answered
      /\ task[t].result_status = NOT_FOUND
      /\ task[t].delay = 2 * ESI_ERROR_SLEEP_TIME

----------------------------------------------------------------------------
(* C31: a pages whose page one was answered 304 while it had read no cached
   body leaves its loop with absent data and returns a Result with status
   304 and no data, never an empty or partial sequence. *)
C31_NotModifiedPageOneWithoutBody ==
    \A t \in Calls :
      LET r == task[t] IN
      (/\ r.op = "pages" /\ LeftLoop(r) /\ r.answered
       /\ r.result_status = NOT_MODIFIED /\ IsNone(r.previous_json)) =>
        /\ IsNone(r.result_data)
        /\ r.pc = "done" => Ends(r) = Result(NOT_MODIFIED, None)

----------------------------------------------------------------------------
(* ESIAlliancMemberTask.run (src/tasks/esi_alliance_member_task.py) and
   SpecMember: one cycle of the task (task Member) for the alliance of its
   session, against any stored rows, any result of its fetches and any
   failure of a commit.  One action is one stretch of run between two
   suspension points. *)

Member == 0

\* Largest corporation id the upstream lists for an alliance.
MaxCorporation == 2

(* Lines 30-31: the alliance that is given one more corporation. *)
CAS_ALLIANCE == 99002329
CAS_CORPORATION == 1000169

(* int(client_session.get(AppSSO.ESI_ALLIANCE_ID, 0)): no alliance, an
   ordinary alliance, the alliance of line 30. *)
AllianceIds == {0, 1, CAS_ALLIANCE}

(* The permutations of a set: the orders in which Python iterates it. *)
Orders(S) ==
    {s \in [1..Cardinality(S) -> S] : \A i, j \in DOMAIN s : i # j => s[i] # s[j]}

(* What the fetch of /alliances/{id}/corporations/ hands back: an
   AppESIResult with a list of corporation ids, or without data. *)
AllianceResults ==
    {Result(s, None) : s \in {HTTP_OK, NOT_MODIFIED, NOT_FOUND}}
    \cup {Result(s, Some(ids)) : s \in {HTTP_OK, NOT_MODIFIED},
                                 ids \in UNION {Orders(S) : S \in SUBSET (1..MaxCorporation)}}

(* The ESI document of corporation c. *)
CorporationInfo(c) ==
    [name |-> <<"name", c>>, ticker |-> <<"ticker", c>>, member_count |-> <<"members", c>>]

(* What the fetch of /corporations/{c}/ hands back. *)
CorporationResults(c) ==
    {Result(s, None) : s \in {HTTP_OK, NOT_MODIFIED, NOT_FOUND}}
    \cup {Result(s, Some(CorporationInfo(c))) : s \in {HTTP_OK, NOT_MODIFIED}}

(* Lines 37, 90: the test a result must pass to be used. *)
Usable(res) == res.status \in {HTTP_OK, NOT_MODIFIED} /\ IsSome(res.data)

(* Line 57: one row of AppTables.AllianceCorporation. *)
AllianceCorporation(alliance_id, corporation_id) ==
    [alliance_id |-> alliance_id, corporation_id |-> corporation_id]

(* Lines 91-102: the AppTables.Corporation built from a result's data, of
   which the members name and ticker are kept. *)
Corporation(corporation_id, data) ==
    [corporation_id |-> corporation_id, name |-> data.name, ticker |-> data.ticker]

(* Locals of run before its first statement. *)
NewRun(alliance_id) ==
    [op |-> "run", pc |-> "start", alliance_id |-> alliance_id,
     corporation_id_set |-> {}, esi_result |-> None,
     existing_corporation_id_set |-> {},
     task_list |-> << >>,           \* the corporation each fetch is for
     corporation_id |-> None,       \* the loop variable of line 82
     results |-> << >>,             \* what the fetches of task_list handed back
     obj_set |-> {},
     rows_before |-> {}]            \* AllianceCorporation rows when run began

(* Lines 41 and 65: what run does after the alliance's fetch. *)
AfterAllianceFetch(alliance_id, ids) ==
    IF alliance_id > 0 /\ ids # {} THEN "replace"
    ELSE IF ids # {} THEN "corporations" ELSE "done"

(* Lines 25-39: the ids of the alliance's corporations. *)
RunAllianceFetch ==
    /\ task[Member].pc = "start"
    /\ LET r == task[Member]
           seed == IF r.alliance_id = CAS_ALLIANCE THEN {CAS_CORPORATION} ELSE {}
       IN IF r.alliance_id > 0
          THEN \E res \in AllianceResults :
                 LET ids == seed \cup (IF Usable(res)
                                       THEN {Val(res.data)[i] : i \in DOMAIN Val(res.data)}
                                       ELSE {})
                 IN Upd(Member, [r EXCEPT !.esi_result = Some(res),
                                          !.corporation_id_set = ids,
                                          !.pc = AfterAllianceFetch(r.alliance_id, ids)])
          ELSE Upd(Member, [r EXCEPT !.corporation_id_set = seed,
                                     !.pc = AfterAllianceFetch(r.alliance_id, seed)])
    /\ UNCHANGED <<cache, upstream, completed, cls, db>>

(* Lines 43-63: in one transaction, the alliance's rows are deleted and one
   row per id of the set is added; a failure leaves the table as it was. *)
RunReplaceRows ==
    /\ task[Member].pc = "replace"
    /\ LET r == task[Member]
           kept == {row \in db.alliance_corporation : row.alliance_id # r.alliance_id}
           added == {AllianceCorporation(r.alliance_id, c) : c \in r.corporation_id_set}
       IN \E committed \in BOOLEAN :
            db' = IF committed THEN [db EXCEPT !.alliance_corporation = kept \cup added]
                  ELSE db
    /\ Upd(Member, [task[Member] EXCEPT !.pc = "corporations"])
    /\ UNCHANGED <<cache, upstream, completed, cls>>

(* Python's == between a corporation id (an int) and a member of
   existing_corporation_id_set (an AppTables.Corporation object, line 75). *)
SameCorporation(corporation_id, obj) == FALSE

(* Line 82: corporation_id_set - existing_corporation_id_set. *)
ToFetch(ids, existing) ==
    {c \in ids : ~\E obj \in existing : SameCorporation(c, obj)}

(* Lines 67-84: the stored corporations are read and one fetch is listed for
   each id of the difference, in the order the set iterates; corporation_id
   is left at the last of them.  With nothing to fetch, or when the read
   fails, run ends. *)
RunListFetches ==
    /\ task[Member].pc = "corporations"
    /\ LET r == task[Member] IN
       \E read \in BOOLEAN :
         IF ~read THEN Upd(Member, [r EXCEPT !.pc = "done"])
         ELSE LET existing == db.corporation
                  fetch == ToFetch(r.corporation_id_set, existing)
              IN \E order \in Orders(fetch) :
                   Upd(Member, [r EXCEPT
                     !.existing_corporation_id_set = existing,
                     !.task_list = order,
                     !.corporation_id = IF fetch = {} THEN None ELSE Some(order[Len(order)]),
                     !.results = [i \in DOMAIN order |-> None],
                     !.pc = IF fetch = {} THEN "done" ELSE "gather"])
    /\ UNCHANGED <<cache, upstream, completed, cls, db>>

(* Line 87: one of the gathered fetches completes. *)
RunCorporationFetch(i) ==
    /\ task[Member].pc = "gather"
    /\ i \in DOMAIN task[Member].results /\ IsNone(task[Member].results[i])
    /\ \E res \in CorporationResults(task[Member].task_list[i]) :
         Upd(Member, [task[Member] EXCEPT !.results[i] = Some(res)])
    /\ UNCHANGED <<cache, upstream, completed, cls, db>>

(* Lines 87-107: all fetches done, a Corporation is built from each usable
   result with corporation_id as the loop of line 82 left it, and they are
   added and committed; a failure stores none. *)
RunStore ==
    /\ task[Member].pc = "gather"
    /\ \A i \in DOMAIN task[Member].results : IsSome(task[Member].results[i])
    /\ LET r == task[Member]
           obj_set == {Corporation(Val(r.corporation_id), Val(Val(r.results[i]).data)) :
                          i \in {j \in DOMAIN r.results : Usable(Val(r.results[j]))}}
       IN /\ Upd(Member, [r EXCEPT !.obj_set = obj_set, !.pc = "done"])
          /\ \E committed \in BOOLEAN :
               db' = IF committed /\ obj_set # {}
                     THEN [db EXCEPT !.corporation = @ \cup obj_set]
                     ELSE db
    /\ UNCHANGED <<cache, upstream, completed, cls>>

(* The rows another alliance has in the table. *)
OtherAlliance == 2

InitMember ==
    /\ \E a \in AllianceIds, listed, known \in SUBSET (1..MaxCorporation) :
         /\ db = [NoRows EXCEPT
                    !.alliance_corporation =
                       {AllianceCorporation(a, c) : c \in listed}
                       \cup {AllianceCorporation(OtherAlliance, 1)},
                    !.corporation = {Corporation(c, CorporationInfo(c)) : c \in known}]
         /\ task = [t \in {Member} |->
                      [NewRun(a) EXCEPT !.rows_before = db.alliance_corporation]]
    /\ cache = NoCache({1})
    /\ upstream = [id \in {1} |-> MaxVersion]
    /\ completed = << >>
    /\ cls = Loaded

NextMember ==
    \/ RunAllianceFetch
    \/ RunReplaceRows
    \/ RunListFetches
    \/ \E i \in 1..(MaxCorporation + 1) : RunCorporationFetch(i)
    \/ RunStore

SpecMember == InitMember /\ [][NextMember]_vars

(* The AllianceCorporation rows of an alliance among rows. *)
RowsOf(rows, alliance_id) == {row \in rows : row.alliance_id = alliance_id}

(* C32: when the fetch of an alliance's corporations came back without data
   or with a status other than 200 and 304, the AllianceCorporation rows of
   that alliance stay as they were when the cycle began, whatever the
   alliance id is. *)
C32_AbsentDataLeavesRows ==
    LET r == task[Member] IN
    (/\ IsSome(r.esi_result)
     /\ \/ IsNone(Val(r.esi_result).data)
        \/ Val(r.esi_result).status \notin {HTTP_OK, NOT_MODIFIED}) =>
      RowsOf(db.alliance_corporation, r.alliance_id) = RowsOf(r.rows_before, r.alliance_id)

(* The corporation whose ESI document a stored Corporation was built from. *)
BuiltFrom(row) == row.name[2]

(* C39: every Corporation row stored carries the id of the corporation
   whose ESI response it was built from, and run lists no fetch for a
   corporation that was in the store when it read it. *)
C39_RecordsCarryTheirCorporation ==
    LET r == task[Member] IN
    /\ \A row \in db.corporation : row.corporation_id = BuiltFrom(row)
    /\ \A i \in DOMAIN r.task_list :
         ~\E obj \in r.existing_corporation_id_set : obj.corporation_id = r.task_list[i]

----------------------------------------------------------------------------
(* The body and the etag cached for identity id were written from one
   response of the upstream. *)
FromOneResponse(id) ==
    \E v \in 1..MaxVersion :
       /\ Val(cache[Key("json", id)]).val = JsonDumps(Body(id, v))
       /\ Val(cache[Key("etag", id)]).val = ETagOf(id, v)

(* C33: in every state of the cache, whatever the interleaving of the
   concurrent calls on an identity, a body entry and an etag entry that are
   both present were written from the same upstream response. *)
C33_BodyAndEtagFromOneResponse ==
    \A id \in DOMAIN upstream :
      (IsSome(cache[Key("json", id)]) /\ IsSome(cache[Key("etag", id)])) =>
        FromOneResponse(id)

----------------------------------------------------------------------------
(* SpecShared: a get (task Getter) and a pages (task 1) called one after
   the other, in either order, on one request identity, while the collection
   changes upstream.  The store is available and holds nothing or the
   collection as an earlier pages cached it; the upstream is a faithful HTTP
   server, and version v of the collection has PageCount(v) pages.  The page
   fetches that pages starts are left waiting. *)

Getter == 0

(* The X-Pages the upstream reports for version ver of the collection: it
   grows by one page with each version. *)
PageCount(ver) == ver

CollectionOutcomes(r, ver) ==
    [kind : {"response"}, status : {HTTP_OK}, etag : {TRUE},
     expires : {NoExpires}, xpages : {XPages(PageCount(ver))}, read : {"ok"}]
    \cup [kind : {"response"},
          status : IF r.inm = Some(ETagOf(r.id, ver)) THEN {NOT_MODIFIED} ELSE {},
          etag : {FALSE}, expires : {NoExpires}, xpages : {NoXPages}, read : {"ok"}]
    \cup [kind : {"response"}, status : {500}, etag : {FALSE},
          expires : {NoExpires}, xpages : {NoXPages}, read : {"ok"}]

(* A caller starts call t when no other call is running. *)
CallInTurn(t) ==
    /\ task[t].pc = "idle"
    /\ \A u \in DOMAIN task \ {t} : task[u].pc \in {"idle", "done", "gather"}
    /\ Upd(t, Start(task[t]))
    /\ UNCHANGED <<cache, upstream, completed, cls, db>>

InitShared ==
    /\ task = [t \in {Getter, 1} |-> IF t = Getter THEN NewTask("get", 1)
                                     ELSE NewTask("pages", 1)]
    /\ upstream = [id \in {1} |-> 1]
    /\ cache \in {NoCache({1}) @@ (Key("pages", 1) :> None),
                  FullCache({1})
                    @@ (Key("pages", 1) :> Some(Entry(StrOfInt(PageCount(1)), KV_LIFETIME)))}
    /\ completed = << >>
    /\ cls = Loaded
    /\ db = NoRows

NextShared ==
    \/ \E t \in {Getter, 1} : CallInTurn(t)
    \/ GetReadJson(Getter, Available)
    \/ GetReadEtag(Getter, Available)
    \/ GetAttempt(Getter, CollectionOutcomes(task[Getter], upstream[1]))
    \/ GetReturn(Getter)
    \/ PagesReadJson(1, Available)
    \/ PagesReadPages(1, Available)
    \/ PagesReadEtag(1, Available)
    \/ PagesAttempt(1, CollectionOutcomes(task[1], upstream[1]))
    \/ PagesFanOut(1)
    \/ \E t \in {Getter, 1} : Sleep(t)
    \/ \E t \in {Getter, 1} : CacheWrite(t, Available)
    \/ UpstreamChange

SpecShared == InitShared /\ [][NextShared]_vars

(* C34: a pages answered 304 takes a page count that was written by the
   response whose etag it validated, whatever calls of get and pages on the
   identity came before. *)
C34_ReusedCountMatchesEtag ==
    \A t \in Calls :
      LET r == task[t] IN
      (r.op = "pages" /\ LeftLoop(r) /\ r.answered /\ r.result_status = NOT_MODIFIED) =>
        \E v \in 1..MaxVersion :
           r.inm = Some(ETagOf(r.id, v)) /\ r.maxpageno = PageCount(v)

----------------------------------------------------------------------------
(* C35: every call ends: a pass of the loop that does not leave it strictly
   decreases the remaining attempts (after n passes still in the loop they
   are at most the budget less n, so a call makes at most
   ESI_ERROR_RETRY_COUNT passes), and the remaining attempts stay between 0
   and the budget. *)
C35_AttemptsBoundTheLoop ==
    \A t \in Calls :
      LET r == task[t] IN
      /\ r.attempts_remaining \in 0..ESI_ERROR_RETRY_COUNT
      /\ r.pc \in {"attempt", "sleep"} =>
           r.attempts_remaining <= ESI_ERROR_RETRY_COUNT - r.n_attempts
      /\ r.n_attempts <= ESI_ERROR_RETRY_COUNT
      /\ r.pc = "attempt" => r.attempts_remaining > 0

----------------------------------------------------------------------------
(* SpecEquiv: a get (task Getter) and a pages (task 1) on one identity, a
   collection of a single page, started from the same cache contents
   (anything an earlier call can have left, read by both before either
   makes an attempt) and given the same upstream answer on each attempt:
   any response whose X-Pages is absent or 1, or no response.  The store is
   available. *)

SinglePageOutcomes ==
    {o \in PagesOutcomes : o.kind = "response" => o.xpages \in {NoXPages, XPages(1)}}

(* The next attempt of the two calls gets one and the same answer; a call
   whose partner has left its loop goes on alone. *)
SameAnswer ==
    /\ \E t \in {Getter, 1} : task[t].pc = "attempt"
    /\ \A t \in {Getter, 1} : task[t].pc = "attempt" \/ LeftLoop(task[t])
    /\ \E o \in SinglePageOutcomes :
         task' = [t \in DOMAIN task |->
                    IF task[t].pc = "attempt"
                    THEN Process(task[t], o, upstream[1]) ELSE task[t]]
    /\ UNCHANGED <<cache, upstream, completed, cls, db>>

InitEquiv ==
    /\ task = [t \in {Getter, 1} |-> IF t = Getter THEN Start(NewTask("get", 1))
                                     ELSE Start(NewTask("pages", 1))]
    /\ \E j \in JsonEntries(1, 1), e \in EtagEntries(1, 1),
          n \in {None, Some(Entry(StrOfInt(1), KV_LIFETIME))} :
         cache = (Key("json", 1) :> j) @@ (Key("etag", 1) :> e) @@ (Key("pages", 1) :> n)
    /\ upstream = [id \in {1} |-> MaxVersion]
    /\ completed = << >>
    /\ cls = Loaded
    /\ db = NoRows

NextEquiv ==
    \/ GetReadJson(Getter, Available)
    \/ GetReadEtag(Getter, Available)
    \/ PagesReadJson(1, Available)
    \/ PagesReadPages(1, Available)
    \/ PagesReadEtag(1, Available)
    \/ SameAnswer
    \/ \E t \in {Getter, 1} : Sleep(t)
    \/ \E t \in {Getter, 1} : CacheWrite(t, Available)
    \/ GetReturn(Getter)
    \/ PagesFanOut(1)

SpecEquiv == InitEquiv /\ [][NextEquiv]_vars

(* C36: on a collection of a single page, a get and a pages started from
   the same cache contents and given the same upstream responses end alike:
   with the same status and the same data, present or absent. *)
C36_SinglePageEquivalence ==
    (task[Getter].pc = "done" /\ task[1].pc = "done") =>
      task[Getter].out = task[1].out

----------------------------------------------------------------------------
(* C37: a pages called without request_params whose page one succeeded and
   reported two or more pages issues the fetches of pages 2..N, as a call
   given a parameter mapping does, and ends by returning a Result. *)
C37_OmittedParametersFanOut ==
    \A t \in Calls :
      LET r == task[t] IN
      (/\ r.op = "pages" /\ IsNone(r.request_params)
       /\ r.pc \in {"gather", "done"}
       /\ r.result_status = HTTP_OK /\ IsSome(r.result_data) /\ r.maxpageno >= 2) =>
        /\ Issued(t) = RestPages(r.maxpageno)
        /\ r.pc = "done" => Ends(r).kind = "result"

----------------------------------------------------------------------------
(* C38: a post whose latest attempt was answered with a 200-class status
   sends no further request; it goes on to another attempt only after a
   connection-level failure or a status that is neither 200-class nor of the
   permanent set. *)
C38_PostDeliversAtMostOnce ==
    \A t \in Calls :
      LET r == task[t] IN
      (r.op = "post" /\ r.n_attempts > 0) =>
        /\ (r.answered /\ r.result_status \in SuccessClass) =>
              r.pc \notin {"attempt", "sleep"}
        /\ r.pc \in {"attempt", "sleep"} =>
              \/ ConnectionFailed(r)
              \/ r.result_status \notin SuccessClass \cup PostPermanent

----------------------------------------------------------------------------
(* AppFunctions.is_permitted (src/app/functions.py) and SpecAcl: the two
   calls that is_trusted makes for one principal, without and with
   check_trust (tasks 1 and 2), on one access-control table, for every
   table and every principal of the sets below. *)

(* AppAccessType. *)
ALLIANCE == "ALLIANCE"
CORPORATION == "CORPORATION"
CHARACTER == "CHARACTER"
AccessTypes == {ALLIANCE, CORPORATION, CHARACTER}

(* One row of AppTables.AccessControls. *)
AccessControl(type, id, permit, trust) ==
    [type |-> type, id |-> id, permit |-> permit, trust |-> trust]

(* The ids a session carries: none (0, the default of session.get), an
   invalid one, the one the table may have entries for. *)
PrincipalIds == {-1, 0, 1}

(* The tables: for each type at most one entry for id 1, with any permit
   and trust, and possibly entries for id 0 that permit and trust.  The
   table holds one entry per type and id. *)
AccessControlTables ==
    {{AccessControl(type, 1, Val(rows[type]).permit, Val(rows[type]).trust) :
         type \in {ty \in AccessTypes : IsSome(rows[ty])}} \cup stray :
       rows \in [AccessTypes -> {None} \cup {Some(e) : e \in [permit : BOOLEAN, trust : BOOLEAN]}],
       stray \in {{}, {AccessControl(type, 0, TRUE, TRUE) : type \in AccessTypes}}}

(* AclEvaluations with the character looked at first. *)
AclEvaluationsCharacterFirst(character_id, corpporation_id, alliance_id) ==
    << <<CHARACTER, character_id>>, <<CORPORATION, corpporation_id>>,
       <<ALLIANCE, alliance_id>> >>

(* Lines 562-566: acl_evaluations. *)
AclEvaluations(character_id, corpporation_id, alliance_id) ==
    << <<ALLIANCE, alliance_id>>, <<CORPORATION, corpporation_id>>,
       <<CHARACTER, character_id>> >>

(* Lines 568-577: the loop over acl_evaluations from the k-th on.  An
   evaluation whose id is not above 0 is skipped; the entry of the
   evaluation's type with its id sets acl_pass. *)
RECURSIVE Evaluate(_, _, _, _, _)
Evaluate(acl_evaluations, k, acl_set, check_trust, acl_pass) ==
    IF k > Len(acl_evaluations) THEN acl_pass
    ELSE LET acl_type == acl_evaluations[k][1]
             acl_id == acl_evaluations[k][2]
             matching == {acl \in acl_set : acl.type = acl_type /\ acl.id = acl_id}
         IN IF ~(acl_id > 0) \/ matching = {}
            THEN Evaluate(acl_evaluations, k + 1, acl_set, check_trust, acl_pass)
            ELSE LET acl == CHOOSE a \in matching : TRUE
                 IN Evaluate(acl_evaluations, k + 1, acl_set, check_trust,
                             IF check_trust THEN acl.permit /\ acl.trust ELSE acl.permit)

(* Lines 552-579. *)
IsPermittedValue(acl_set, character_id, corpporation_id, alliance_id, check_trust) ==
    Evaluate(AclEvaluations(character_id, corpporation_id, alliance_id), 1,
             acl_set, check_trust, FALSE)

(* Locals of a call of is_permitted before its first statement. *)
NewCheck(character_id, corpporation_id, alliance_id, check_trust) ==
    [op |-> "is_permitted", pc |-> "start",
     character_id |-> character_id, corpporation_id |-> corpporation_id,
     alliance_id |-> alliance_id, check_trust |-> check_trust, out |-> None]

(* Lines 552-579: the call reads the table and returns acl_pass. *)
IsPermitted(t) ==
    /\ task[t].op = "is_permitted" /\ task[t].pc = "start"
    /\ LET r == task[t]
           acl_set == {acl \in db.access_controls : TRUE}
       IN Upd(t, [r EXCEPT !.pc = "done",
                           !.out = Some(Returns(IsPermittedValue(acl_set, r.character_id,
                                                   r.corpporation_id, r.alliance_id,
                                                   r.check_trust)))])
    /\ UNCHANGED <<cache, upstream, completed, cls, db>>

InitAcl ==
    /\ \E acl \in AccessControlTables : db = [NoRows EXCEPT !.access_controls = acl]
    /\ \E character_id, corpporation_id, alliance_id \in PrincipalIds :
         task = [t \in {1, 2} |->
                   NewCheck(character_id, corpporation_id, alliance_id, t = 2)]
    /\ cache = NoCache({1})
    /\ upstream = [id \in {1} |-> MaxVersion]
    /\ completed = << >>
    /\ cls = Loaded

NextAcl == \E t \in {1, 2} : IsPermitted(t)

SpecAcl == InitAcl /\ [][NextAcl]_vars

(* The entries of the table that match a principal: those of its alliance,
   corporation and character, for the ids above 0. *)
MatchingEntry(type, id) ==
    {acl \in db.access_controls : id > 0 /\ acl.type = type /\ acl.id = id}

(* The most specific of them: the character's if there is one, else the
   corporation's, else the alliance's. *)
MostSpecific(r) ==
    IF MatchingEntry(CHARACTER, r.character_id) # {}
    THEN MatchingEntry(CHARACTER, r.character_id)
    ELSE IF MatchingEntry(CORPORATION, r.corpporation_id) # {}
    THEN MatchingEntry(CORPORATION, r.corpporation_id)
    ELSE MatchingEntry(ALLIANCE, r.alliance_id)

(* C40: is_permitted returns what the most specific matching entry says
   (character over corporation over alliance, ids not above 0 ignored): its
   permit, and with check_trust its permit and trust; it returns false when
   no entry matches.  So on one table a call with check_trust that returns
   true has its twin without check_trust return true. *)
C40_MostSpecificEntryDecides ==
    /\ \A t \in DOMAIN task :
         LET r == task[t] IN
         (r.op = "is_permitted" /\ r.pc = "done") =>
           /\ MostSpecific(r) = {} => r.out = Some(Returns(FALSE))
           /\ \A acl \in MostSpecific(r) :
                r.out = Some(Returns(IF r.check_trust THEN acl.permit /\ acl.trust
                                     ELSE acl.permit))
    /\ (task[1].pc = "done" /\ task[2].pc = "done"
          /\ task[2].out = Some(Returns(TRUE))) =>
         task[1].out = Some(Returns(TRUE))

(* C40 witness: both calls have returned for a principal whose alliance has
   an entry that permits and trusts and whose character has an entry that
   permits without trust, next to entries for id 0: the call without
   check_trust returned true and the one with it false. *)
C40_Witness ==
    /\ task[1].pc = "done" /\ task[2].pc = "done"
    /\ task[1].character_id = 1 /\ task[1].alliance_id = 1 /\ task[1].corpporation_id = 0
    /\ AccessControl(ALLIANCE, 1, TRUE, TRUE) \in db.access_controls
    /\ AccessControl(CHARACTER, 1, TRUE, FALSE) \in db.access_controls
    /\ AccessControl(CORPORATION, 0, TRUE, TRUE) \in db.access_controls
    /\ task[1].out = Some(Returns(TRUE)) /\ task[2].out = Some(Returns(FALSE))

====
